---- MODULE Spec2Model ----
(***************************************************************************)
(* khafi-gateway: the admission controller (zk-verification-service) over  *)
(* the shared Redis store.                                                 *)
(*                                                                         *)
(* Every Redis command is one atomic step of the caller; a task may be     *)
(* suspended between any two commands, so the commands of concurrent       *)
(* requests interleave freely.  A command may fail (the store is           *)
(* unreachable): it then has no effect and the caller gets Error::Redis.   *)
(* Obtaining the connection is folded into the first command of each       *)
(* operation: both fail with the same error and without touching the store.*)
(*                                                                         *)
(* Keys expire by TTL: reserved:<n> after 300 s, which may elapse while a  *)
(* request is still running; nullifier:<n> after 30 days, which is taken   *)
(* to exceed the lifetime of any request that is in flight.                *)
(***************************************************************************)
EXTENDS Integers, FiniteSets, Sequences, TLC

\* ------------------------------------------------------------------ bounds
NumReqs == 2
MaxFailures == 1
\* calls made on the PaymentChecker API, over all tasks
MaxCalls == 3
\* readings of the clock that can be told apart
MaxTime == 2
MaxJobs == 2
MaxRules == 2

\* ------------------------------------------------------- program constants
DEFAULT_MIN_PAYMENT_AMOUNT == 100000
DEFAULT_MIN_CONFIRMATIONS == 1

\* ------------------------------------------------------------ value domains
Reqs == 1..NumReqs
Nullifiers == {"n1", "n2"}
Missing == "missing"
Malformed == "malformed"
HeaderValues == Nullifiers \cup {Missing, Malformed}

\* config.image_id and some other guest image
ImageI == "I"
ImageJ == "J"
Images == {ImageI, ImageJ}

NoPayment == [exists |-> FALSE]
NoInfo == [set |-> FALSE]
NoHeight == -1
NoReceipt == [kind |-> "unread"]
NoTime == 0

\* x-zk-receipt as verify_proof sees it: not hex, hex that does not
\* deserialize, or a Receipt whose seal verifies against `image`.  The
\* journal is decoded (to GuestOutputs {nullifier, compliance_result}) only
\* after the seal verified against the expected image, so only receipts for
\* ImageI carry one here.
\* check() reads only the header's presence on arrival; its content is first
\* read by verify_proof, and is drawn there.
Receipts ==
    {[kind |-> "badhex"], [kind |-> "baddeser"], [kind |-> "proof", image |-> ImageJ]} \cup
    {[kind |-> "proof", image |-> ImageI, nullifier |-> n, compliance_result |-> c] :
        n \in Nullifiers, c \in BOOLEAN}

PaymentRecord(amount, height) ==
    [exists |-> TRUE, amount |-> amount, block_height |-> height,
     used |-> FALSE, used_at |-> NoTime]

\* what the watcher may have written for a nullifier before the requests
InitialPayments ==
    {NoPayment, PaymentRecord(1000000, 100)}

\* the same, with the payments that check_payment turns down: one below the
\* minimum amount, one in the block at the tip of the chain (0 confirmations)
PolicyPayments ==
    InitialPayments \cup {PaymentRecord(50000, 100), PaymentRecord(1000000, 101)}

VARIABLES
    nullifierKey,   \* nullifier:<n>: "none", "set" (no TTL yet) or "ttl"
    payment,        \* payment:<n> hash
    unused,         \* payments:unused
    reservedKey,    \* reserved:<n> exists
    reservedSet,    \* payments:reserved
    chainHeight,    \* chain:block_height
    requirePayment, \* PaymentConfig.require_payment
    now,            \* chrono::Utc::now()
    req,            \* the tasks: position, inputs, locals, response
    nullGen,        \* history: how often nullifier:<n> has expired
    holders,        \* history: whose SET NX created the live reserved:<n>
    failures,       \* history: store commands that failed
    minPaymentAmount,   \* PaymentConfig.min_payment_amount
    minConfirmations,   \* PaymentConfig.min_confirmations
    \* image-id-registry (its own Redis keys)
    deployment,     \* deployment:<c>: the image_id of c's CustomerDeployment
    imageKey,       \* image_id:<i>: a customer_id
    deploymentsAll, \* deployments:all
    regLast,        \* the last registry operation and what it returned
    regFailures,    \* history: registry store commands that failed
    \* build-service (its own Redis keys, its handler and its workers)
    jobStore,       \* build:job:<id>: the serialized BuildJob
    buildQueue,     \* build:queue
    customerJobs,   \* build:customer:<c>
    queueing,       \* queue_build_handler inside queue_job (storage mutex held)
    worker,         \* the workers: position in run(), the local job
    pushed,         \* history: job ids in the order of their RPUSH
    popped,         \* history: job ids and workers in the order of the BLPOPs
    buildFailures,  \* history: build store commands and HTTP calls that failed
    \* logic-compiler (pure functions, applied to one document)
    dsl,            \* the BusinessRulesDSL document
    compiled,       \* how far the document got, what DslParser::validate
                    \* said, the blocks of validate_all, one run of it
    guestInput,     \* the private inputs of that run
    \* zcash-backend (the writers of payment:<n>)
    writer          \* the monitor and the admin API inside a Storage method

registryVars == <<deployment, imageKey, deploymentsAll, regLast, regFailures>>

\* PaymentConfig is read once, at start-up
configVars == <<minPaymentAmount, minConfirmations>>

buildVars == <<jobStore, buildQueue, customerJobs, queueing, worker, pushed, popped,
               buildFailures>>

compilerVars == <<dsl, compiled, guestInput>>

backendVars == <<writer>>

\* what no step of the admission controller changes
otherVars == <<registryVars, configVars, buildVars, compilerVars, backendVars>>

storeVars == <<nullifierKey, payment, unused, reservedKey, reservedSet, chainHeight>>
vars == <<nullifierKey, payment, unused, reservedKey, reservedSet, chainHeight,
          requirePayment, otherVars, now, req, nullGen, holders, failures>>

\* the verification service: its stores, its configuration, its tasks
admissionVars == <<storeVars, requirePayment, configVars, now, req, nullGen, holders, failures>>

\* ------------------------------------------------ zcash-backend Storage
\* the payment monitor and the admin API each own a Storage connection
Writers == {"monitor", "api"}

\* a writer outside every Storage method
IdleWriter ==
    [pc |-> "idle", op |-> "none", nullifier |-> Missing, ret |-> "", ncalls |-> 0]

BackendIdle == writer = [w \in Writers |-> IdleWriter]

IdleReq ==
    [pc |-> "idle", caller |-> "none", nullifier |-> Missing, receipt |-> NoReceipt,
     info |-> NoInfo, payment_reserved |-> FALSE, pending |-> <<>>,
     status |-> "", message |-> <<>>, ret |-> "",
     is_new |-> "", gen |-> -1, created |-> FALSE, calls |-> {},
     took |-> FALSE, saw |-> {}, overlap |-> FALSE, ncalls |-> 0]

\* ---------------------------------------------------------------- helpers
Fail ==
    /\ failures < MaxFailures
    /\ failures' = failures + 1

Called(rq, op) == [rq EXCEPT !.calls = @ \cup {op}]

\* the request ends with this response (a CheckResponse status, or the gRPC
\* Status of an Err return)
Respond(rq, st, msg) ==
    [rq EXCEPT !.pc = "done", !.status = st, !.message = msg, !.info = NoInfo]

\* ------------------------------------------- AuthorizationService::check
\* mutant: a nullifier that is already in the index is not turned away
AfterCheckAndSetNoReplay(rq, res) ==
    LET q == [rq EXCEPT !.is_new = res] IN
    IF res = "err" THEN Respond(q, "Unavailable", <<"nullifier checker unavailable">>)
    ELSE IF requirePayment THEN [q EXCEPT !.pc = "check_payment"]
    ELSE [q EXCEPT !.pc = "verify_proof", !.payment_reserved = FALSE]

\* mutant: is_required() is not consulted, the payment check always runs
AfterCheckAndSetAlwaysPay(rq, res) ==
    LET q == [rq EXCEPT !.is_new = res] IN
    IF res = "err" THEN Respond(q, "Unavailable", <<"nullifier checker unavailable">>)
    ELSE IF res = "false" THEN Respond(q, "Unauthenticated", <<"replay">>)
    ELSE [q EXCEPT !.pc = "check_payment"]

\* after check_and_set: Unavailable on a store error, replay on false,
\* otherwise on to the payment check when payment is required
AfterCheckAndSet(rq, res) ==
    LET q == [rq EXCEPT !.is_new = res] IN
    IF res = "err" THEN Respond(q, "Unavailable", <<"nullifier checker unavailable">>)
    ELSE IF res = "false" THEN Respond(q, "Unauthenticated", <<"replay">>)
    ELSE IF requirePayment THEN [q EXCEPT !.pc = "check_payment"]
    ELSE [q EXCEPT !.pc = "verify_proof", !.payment_reserved = FALSE]

\* mutant: the result of check_payment is not looked at
AfterCheckPaymentIgnored(rq, res) ==
    [rq EXCEPT !.pc = "reserve_payment", !.info = NoInfo]

\* after check_payment: every Err (policy or store) is a PermissionDenied
AfterCheckPayment(rq, res) ==
    IF res = "ok" THEN [rq EXCEPT !.pc = "reserve_payment", !.info = NoInfo]
    ELSE Respond(rq, "PermissionDenied", <<"payment verification failed", res>>)

\* after reserve_payment: every Err is a PermissionDenied, and no release
AfterReservePayment(rq, res) ==
    IF res = "ok" THEN [rq EXCEPT !.pc = "verify_proof", !.payment_reserved = TRUE]
    ELSE Respond(rq, "PermissionDenied", <<"failed to reserve payment", res>>)

\* mutant: the deny path forgets the release
DenyAfterVerifyNoRelease(rq, msg) ==
    Respond(rq, "PermissionDenied", msg)

\* a deny after the reservation: release first (when one was made)
DenyAfterVerify(rq, msg) ==
    IF rq.payment_reserved
    THEN [rq EXCEPT !.pc = "release_reservation", !.pending = msg]
    ELSE Respond(rq, "PermissionDenied", msg)

\* Receipt::verify_and_decode: the seal must verify against the expected image
VerifyAndDecode(rc, expected) ==
    IF rc.image = expected
    THEN [ok |-> TRUE, nullifier |-> rc.nullifier, compliance_result |-> rc.compliance_result]
    ELSE [ok |-> FALSE]

\* mutant: compliance_result is not looked at
verify_proof_any_result(rc) ==
    IF rc.kind = "badhex"
    THEN [ok |-> FALSE, code |-> "InvalidArgument", message |-> <<"invalid receipt hex">>]
    ELSE IF rc.kind = "baddeser"
    THEN [ok |-> FALSE, code |-> "InvalidArgument", message |-> <<"failed to deserialize receipt">>]
    ELSE LET outputs == VerifyAndDecode(rc, ImageI) IN
         IF ~outputs.ok
         THEN [ok |-> FALSE, code |-> "PermissionDenied", message |-> <<"proof verification failed">>]
         ELSE [ok |-> TRUE, nullifier |-> outputs.nullifier]

\* AuthorizationService::verify_proof
verify_proof(rc) ==
    IF rc.kind = "badhex"
    THEN [ok |-> FALSE, code |-> "InvalidArgument", message |-> <<"invalid receipt hex">>]
    ELSE IF rc.kind = "baddeser"
    THEN [ok |-> FALSE, code |-> "InvalidArgument", message |-> <<"failed to deserialize receipt">>]
    ELSE LET outputs == VerifyAndDecode(rc, ImageI) IN
         IF ~outputs.ok
         THEN [ok |-> FALSE, code |-> "PermissionDenied", message |-> <<"proof verification failed">>]
         ELSE IF ~outputs.compliance_result
         THEN [ok |-> FALSE, code |-> "PermissionDenied", message |-> <<"business logic validation failed">>]
         ELSE [ok |-> TRUE, nullifier |-> outputs.nullifier]

\* mutant: the journal nullifier is not compared with the header
AfterVerifyProofNoCompare(rq, v) ==
    IF ~v.ok THEN DenyAfterVerify(rq, v.message)
    ELSE IF rq.payment_reserved THEN [rq EXCEPT !.pc = "confirm_payment"]
    ELSE Respond(rq, "OK", <<"proof verified successfully", rq.nullifier>>)

\* mutant: the allow path forgets the confirm
AfterVerifyProofNoConfirm(rq, v) ==
    IF ~v.ok THEN DenyAfterVerify(rq, v.message)
    ELSE IF v.nullifier # rq.nullifier THEN DenyAfterVerify(rq, <<"nullifier mismatch">>)
    ELSE Respond(rq, "OK", <<"proof verified successfully", rq.nullifier>>)

\* after verify_proof: deny on Err and on a nullifier mismatch, else confirm
AfterVerifyProof(rq, v) ==
    IF ~v.ok THEN DenyAfterVerify(rq, v.message)
    ELSE IF v.nullifier # rq.nullifier THEN DenyAfterVerify(rq, <<"nullifier mismatch">>)
    ELSE IF rq.payment_reserved THEN [rq EXCEPT !.pc = "confirm_payment"]
    ELSE Respond(rq, "OK", <<"proof verified successfully", rq.nullifier>>)

\* a failed release is logged only
AfterReleaseReservation(rq, res) ==
    Respond(rq, "PermissionDenied", rq.pending)

\* mutant: a failed confirm turns the answer into a deny
AfterConfirmPaymentFatal(rq, res) ==
    IF res = "ok" THEN Respond(rq, "OK", <<"proof verified successfully", rq.nullifier>>)
    ELSE Respond(rq, "PermissionDenied", <<"failed to confirm payment", res>>)

\* a failed confirm is logged only
AfterConfirmPayment(rq, res) ==
    Respond(rq, "OK", <<"proof verified successfully", rq.nullifier>>)

\* a direct caller of the PaymentChecker / NullifierChecker gets the result
ApiReturn(rq, res) ==
    [rq EXCEPT !.pc = "idle", !.ret = res, !.info = NoInfo]

\* the result of operation `op` goes back to whoever called it
Return(rq, op, res) ==
    IF rq.caller = "api" THEN ApiReturn(rq, res)
    ELSE CASE op = "check_and_set" -> AfterCheckAndSet(rq, res)
           [] op = "check_payment" -> AfterCheckPayment(rq, res)
           [] op = "reserve_payment" -> AfterReservePayment(rq, res)
           [] op = "release_reservation" -> AfterReleaseReservation(rq, res)
           [] op = "confirm_payment" -> AfterConfirmPayment(rq, res)

\* ------------------------------------------ NullifierChecker::check_and_set
\* mutant: SET without NX
SetNxCreatesAlways(n) == TRUE

\* SET NX creates the key only when it does not exist
SetNxCreates(n) == nullifierKey[n] = "none"

\* conn.set_nx(nullifier:<n>, "1")
CheckAndSetNx(r) ==
    LET rq == Called(req[r], "check_and_set")
        n == rq.nullifier
    IN /\ req[r].pc = "check_and_set"
       /\ \/ /\ SetNxCreates(n)
             /\ nullifierKey' = [nullifierKey EXCEPT ![n] = "set"]
             /\ req' = [req EXCEPT ![r] =
                    [rq EXCEPT !.pc = "expire", !.gen = nullGen[n], !.created = TRUE]]
             /\ UNCHANGED failures
          \/ /\ ~SetNxCreates(n)
             /\ req' = [req EXCEPT ![r] =
                    Return([rq EXCEPT !.gen = nullGen[n]], "check_and_set", "false")]
             /\ UNCHANGED <<nullifierKey, failures>>
          \/ /\ Fail
             /\ req' = [req EXCEPT ![r] = Return(rq, "check_and_set", "err")]
             /\ UNCHANGED nullifierKey
       /\ UNCHANGED <<payment, unused, reservedKey, reservedSet, chainHeight,
                      requirePayment, otherVars, now, nullGen, holders>>

\* conn.expire(nullifier:<n>, 2592000), only after a SET NX that created the key
CheckAndSetExpire(r) ==
    LET rq == req[r]
        n == rq.nullifier
    IN /\ rq.pc = "expire"
       /\ \/ /\ nullifierKey' = [nullifierKey EXCEPT ![n] = IF @ = "none" THEN @ ELSE "ttl"]
             /\ req' = [req EXCEPT ![r] = Return(rq, "check_and_set", "true")]
             /\ UNCHANGED failures
          \/ /\ Fail
             /\ req' = [req EXCEPT ![r] = Return(rq, "check_and_set", "err")]
             /\ UNCHANGED nullifierKey
       /\ UNCHANGED <<payment, unused, reservedKey, reservedSet, chainHeight,
                      requirePayment, otherVars, now, nullGen, holders>>

\* ---------------------------------------------- PaymentChecker::check_payment
\* parse_payment_fields: a missing field reads as 0 / false
parse_payment_fields(p) ==
    IF p.exists
    THEN [set |-> TRUE, amount |-> p.amount, block_height |-> p.block_height, used |-> p.used]
    ELSE [set |-> TRUE, amount |-> 0, block_height |-> 0, used |-> FALSE]

\* mutant: u32::wrapping_sub; a negative difference wraps to 2^32 - (b - a),
\* shown here by the largest 32-bit signed value
wrapping_sub(a, b) == IF a >= b THEN a - b ELSE 2147483647 - (b - a) + 1

\* u32::saturating_sub
saturating_sub(a, b) == IF a >= b THEN a - b ELSE 0

\* conn.exists(payment:<n>)
CheckPaymentExists(r) ==
    LET rq == Called(req[r], "check_payment")
        n == rq.nullifier
    IN /\ req[r].pc = "check_payment"
       /\ \/ /\ payment[n].exists
             /\ req' = [req EXCEPT ![r] = [rq EXCEPT !.pc = "hgetall"]]
             /\ UNCHANGED failures
          \/ /\ ~payment[n].exists
             /\ req' = [req EXCEPT ![r] = Return(rq, "check_payment", "not_found")]
             /\ UNCHANGED failures
          \/ /\ Fail
             /\ req' = [req EXCEPT ![r] = Return(rq, "check_payment", "redis")]
       /\ UNCHANGED <<storeVars, requirePayment, otherVars, now, nullGen, holders>>

\* conn.hgetall(payment:<n>), parse, and the used check
CheckPaymentHgetall(r) ==
    LET rq == req[r]
        info == parse_payment_fields(payment[rq.nullifier])
    IN /\ rq.pc = "hgetall"
       /\ \/ /\ req' = [req EXCEPT ![r] =
                    IF info.used THEN Return(rq, "check_payment", "used")
                    ELSE [rq EXCEPT !.pc = "exists_reserved", !.info = info]]
             /\ UNCHANGED failures
          \/ /\ Fail
             /\ req' = [req EXCEPT ![r] = Return(rq, "check_payment", "redis")]
       /\ UNCHANGED <<storeVars, requirePayment, otherVars, now, nullGen, holders>>

\* conn.exists(reserved:<n>), then the minimum amount check
CheckPaymentReserved(r) ==
    LET rq == req[r]
    IN /\ rq.pc = "exists_reserved"
       /\ \/ /\ req' = [req EXCEPT ![r] =
                    IF reservedKey[rq.nullifier] THEN Return(rq, "check_payment", "reserved")
                    ELSE IF rq.info.amount < minPaymentAmount
                    THEN Return(rq, "check_payment", "amount")
                    ELSE [rq EXCEPT !.pc = "get_height"]]
             /\ UNCHANGED failures
          \/ /\ Fail
             /\ req' = [req EXCEPT ![r] = Return(rq, "check_payment", "redis")]
       /\ UNCHANGED <<storeVars, requirePayment, otherVars, now, nullGen, holders>>

\* get_current_block_height, then the confirmations check
CheckPaymentHeight(r) ==
    LET rq == req[r]
        confirmations == saturating_sub(chainHeight, rq.info.block_height)
    IN /\ rq.pc = "get_height"
       /\ \/ /\ req' = [req EXCEPT ![r] =
                    IF chainHeight = NoHeight THEN Return(rq, "check_payment", "height")
                    ELSE IF confirmations < minConfirmations
                    THEN Return(rq, "check_payment", "confirmations")
                    ELSE Return(rq, "check_payment", "ok")]
             /\ UNCHANGED failures
          \/ /\ Fail
             /\ req' = [req EXCEPT ![r] = Return(rq, "check_payment", "redis")]
       /\ UNCHANGED <<storeVars, requirePayment, otherVars, now, nullGen, holders>>

\* -------------------------------------------- PaymentChecker::reserve_payment
\* mutant: SET ... EX without NX
ReserveCreatesAlways(n) == TRUE

\* SET reserved:<n> "1" NX EX 300 answers OK only when the key does not exist
ReserveCreates(n) == ~reservedKey[n]

\* redis::cmd("SET") reserved:<n> NX EX RESERVATION_TTL_SECS
ReservePaymentSet(r) ==
    LET rq == Called(req[r], "reserve_payment")
        n == rq.nullifier
    IN /\ req[r].pc = "reserve_payment"
       /\ \/ /\ ReserveCreates(n)
             /\ reservedKey' = [reservedKey EXCEPT ![n] = TRUE]
             /\ holders' = [holders EXCEPT ![n] = @ \cup {r}]
             /\ req' = [req EXCEPT ![r] =
                    [rq EXCEPT !.pc = "sadd_reserved", !.took = TRUE, !.saw = holders[n]]]
             /\ UNCHANGED failures
          \/ /\ ~ReserveCreates(n)
             /\ req' = [req EXCEPT ![r] =
                    Return([rq EXCEPT !.saw = holders[n]], "reserve_payment", "already_reserved")]
             /\ UNCHANGED <<reservedKey, holders, failures>>
          \/ /\ Fail
             /\ req' = [req EXCEPT ![r] = Return(rq, "reserve_payment", "redis")]
             /\ UNCHANGED <<reservedKey, holders>>
       /\ UNCHANGED <<nullifierKey, payment, unused, reservedSet, chainHeight,
                      requirePayment, otherVars, now, nullGen>>

\* conn.sadd("payments:reserved", n)
ReservePaymentSadd(r) ==
    LET rq == req[r]
        n == rq.nullifier
    IN /\ rq.pc = "sadd_reserved"
       /\ \/ /\ reservedSet' = reservedSet \cup {n}
             /\ req' = [req EXCEPT ![r] = Return(rq, "reserve_payment", "ok")]
             /\ UNCHANGED failures
          \/ /\ Fail
             /\ req' = [req EXCEPT ![r] = Return(rq, "reserve_payment", "redis")]
             /\ UNCHANGED reservedSet
       /\ UNCHANGED <<nullifierKey, payment, unused, reservedKey, chainHeight,
                      requirePayment, otherVars, now, nullGen, holders>>

\* ---------------------------------------- PaymentChecker::release_reservation
\* mutant: release leaves the reservation key in place
ReleaseDelSkipped(r) ==
    /\ req[r].pc = "release_reservation"
    /\ req' = [req EXCEPT ![r] =
            [Called(@, "release_reservation") EXCEPT !.pc = "release_srem"]]
    /\ UNCHANGED <<storeVars, requirePayment, otherVars, now, nullGen, holders, failures>>

\* conn.del(reserved:<n>)
ReleaseDel(r) ==
    LET rq == Called(req[r], "release_reservation")
        n == rq.nullifier
    IN /\ req[r].pc = "release_reservation"
       /\ \/ /\ reservedKey' = [reservedKey EXCEPT ![n] = FALSE]
             /\ holders' = [holders EXCEPT ![n] = {}]
             /\ req' = [req EXCEPT ![r] = [rq EXCEPT !.pc = "release_srem"]]
             /\ UNCHANGED failures
          \/ /\ Fail
             /\ req' = [req EXCEPT ![r] = Return(rq, "release_reservation", "redis")]
             /\ UNCHANGED <<reservedKey, holders>>
       /\ UNCHANGED <<nullifierKey, payment, unused, reservedSet, chainHeight,
                      requirePayment, otherVars, now, nullGen>>

\* conn.srem("payments:reserved", n)
ReleaseSrem(r) ==
    LET rq == req[r]
        n == rq.nullifier
    IN /\ rq.pc = "release_srem"
       /\ \/ /\ reservedSet' = reservedSet \ {n}
             /\ req' = [req EXCEPT ![r] = Return(rq, "release_reservation", "ok")]
             /\ UNCHANGED failures
          \/ /\ Fail
             /\ req' = [req EXCEPT ![r] = Return(rq, "release_reservation", "redis")]
             /\ UNCHANGED reservedSet
       /\ UNCHANGED <<nullifierKey, payment, unused, reservedKey, chainHeight,
                      requirePayment, otherVars, now, nullGen, holders>>

\* -------------------------------------------- PaymentChecker::confirm_payment
\* mutant: used is set, used_at is not stamped
MarkUsedNoStamp(p, t) ==
    IF p.exists THEN [p EXCEPT !.used = TRUE]
    ELSE [exists |-> TRUE, amount |-> 0, block_height |-> 0, used |-> TRUE, used_at |-> NoTime]

\* HSET used "true" used_at <now>; HSET on a missing key creates the hash,
\* whose other fields then read as 0
MarkUsed(p, t) ==
    IF p.exists THEN [p EXCEPT !.used = TRUE, !.used_at = t]
    ELSE [exists |-> TRUE, amount |-> 0, block_height |-> 0, used |-> TRUE, used_at |-> t]

\* conn.hset_multiple(payment:<n>, [("used","true"),("used_at",now)])
ConfirmHset(r) ==
    LET rq == Called(req[r], "confirm_payment")
        n == rq.nullifier
    IN /\ req[r].pc = "confirm_payment"
       /\ \/ /\ payment' = [payment EXCEPT ![n] = MarkUsed(@, now)]
             /\ req' = [req EXCEPT ![r] = [rq EXCEPT !.pc = "confirm_srem_unused"]]
             /\ UNCHANGED failures
          \/ /\ Fail
             /\ req' = [req EXCEPT ![r] = Return(rq, "confirm_payment", "redis")]
             /\ UNCHANGED payment
       /\ UNCHANGED <<nullifierKey, unused, reservedKey, reservedSet, chainHeight,
                      requirePayment, otherVars, now, nullGen, holders>>

\* conn.srem("payments:unused", n)
ConfirmSremUnused(r) ==
    LET rq == req[r]
        n == rq.nullifier
    IN /\ rq.pc = "confirm_srem_unused"
       /\ \/ /\ unused' = unused \ {n}
             /\ req' = [req EXCEPT ![r] = [rq EXCEPT !.pc = "confirm_del"]]
             /\ UNCHANGED failures
          \/ /\ Fail
             /\ req' = [req EXCEPT ![r] = Return(rq, "confirm_payment", "redis")]
             /\ UNCHANGED unused
       /\ UNCHANGED <<nullifierKey, payment, reservedKey, reservedSet, chainHeight,
                      requirePayment, otherVars, now, nullGen, holders>>

\* mutant: confirm leaves the reservation key in place
ConfirmDelSkipped(r) ==
    /\ req[r].pc = "confirm_del"
    /\ req' = [req EXCEPT ![r] = [@ EXCEPT !.pc = "confirm_srem_reserved"]]
    /\ UNCHANGED <<storeVars, requirePayment, otherVars, now, nullGen, holders, failures>>

\* conn.del(reserved:<n>)
ConfirmDel(r) ==
    LET rq == req[r]
        n == rq.nullifier
    IN /\ rq.pc = "confirm_del"
       /\ \/ /\ reservedKey' = [reservedKey EXCEPT ![n] = FALSE]
             /\ holders' = [holders EXCEPT ![n] = {}]
             /\ req' = [req EXCEPT ![r] = [rq EXCEPT !.pc = "confirm_srem_reserved"]]
             /\ UNCHANGED failures
          \/ /\ Fail
             /\ req' = [req EXCEPT ![r] = Return(rq, "confirm_payment", "redis")]
             /\ UNCHANGED <<reservedKey, holders>>
       /\ UNCHANGED <<nullifierKey, payment, unused, reservedSet, chainHeight,
                      requirePayment, otherVars, now, nullGen>>

\* conn.srem("payments:reserved", n)
ConfirmSremReserved(r) ==
    LET rq == req[r]
        n == rq.nullifier
    IN /\ rq.pc = "confirm_srem_reserved"
       /\ \/ /\ reservedSet' = reservedSet \ {n}
             /\ req' = [req EXCEPT ![r] = Return(rq, "confirm_payment", "ok")]
             /\ UNCHANGED failures
          \/ /\ Fail
             /\ req' = [req EXCEPT ![r] = Return(rq, "confirm_payment", "redis")]
             /\ UNCHANGED reservedSet
       /\ UNCHANGED <<nullifierKey, payment, unused, reservedKey, chainHeight,
                      requirePayment, otherVars, now, nullGen, holders>>

\* ------------------------------------------- AuthorizationService::check
\* the tasks that are between arrival and response for nullifier n
InFlightFor(n) ==
    {r \in Reqs : req[r].nullifier = n /\ req[r].pc \notin {"idle", "done"}}

\* a request arrives: header extraction and Nullifier::from_hex
Start(r) ==
    /\ req[r].pc = "idle"
    /\ \E h \in HeaderValues, rc \in {NoReceipt, [kind |-> Missing]} :
        LET rq == [req[r] EXCEPT !.caller = "check", !.nullifier = h, !.receipt = rc,
                                 !.overlap = InFlightFor(h) # {}]
        IN req' = [req EXCEPT ![r] =
                IF rc.kind = Missing
                THEN Respond([req[r] EXCEPT !.caller = "check", !.receipt = rc],
                             "Unauthenticated", <<"missing x-zk-receipt header">>)
                ELSE IF h = Missing
                THEN Respond(rq, "Unauthenticated", <<"missing x-zk-nullifier header">>)
                ELSE IF h = Malformed
                THEN Respond(rq, "InvalidArgument", <<"invalid nullifier format">>)
                ELSE [rq EXCEPT !.pc = "check_and_set"]]
    /\ UNCHANGED <<storeVars, requirePayment, otherVars, now, nullGen, holders, failures>>

\* self.verify_proof(receipt_hex) and the nullifier comparison
VerifyProof(r) ==
    /\ req[r].pc = "verify_proof"
    /\ \E rc \in Receipts :
        LET rq == [Called(req[r], "verify_proof") EXCEPT !.receipt = rc]
        IN req' = [req EXCEPT ![r] = AfterVerifyProof(rq, verify_proof(rc))]
    /\ UNCHANGED <<storeVars, requirePayment, otherVars, now, nullGen, holders, failures>>

\* ------------------------------------------------------------ key expiry
\* mutant: the reservation is set without EX, it never expires
ExpireReservationNoTtl(n) ==
    /\ FALSE
    /\ UNCHANGED vars

\* reserved:<n> reaches its TTL (payments:reserved is a plain set: no TTL)
ExpireReservation(n) ==
    /\ reservedKey[n]
    /\ reservedKey' = [reservedKey EXCEPT ![n] = FALSE]
    /\ holders' = [holders EXCEPT ![n] = {}]
    /\ UNCHANGED <<nullifierKey, payment, unused, reservedSet, chainHeight,
                   requirePayment, otherVars, now, req, nullGen, failures>>

\* nullifier:<n> reaches its 30-day TTL; no request for n lasts that long
ExpireNullifier(n) ==
    /\ nullifierKey[n] = "ttl"
    /\ InFlightFor(n) = {}
    /\ nullifierKey' = [nullifierKey EXCEPT ![n] = "none"]
    /\ nullGen' = [nullGen EXCEPT ![n] = @ + 1]
    /\ UNCHANGED <<payment, unused, reservedKey, reservedSet, chainHeight,
                   requirePayment, otherVars, now, req, holders, failures>>

\* ------------------------------------------- image-id-registry: Storage
\* Every handler holds the Mutex<Storage> for the whole storage call, so the
\* calls of one registry do not interleave: each is one step.  A call runs
\* its Redis commands in order; command number f may fail (f = 0: none),
\* which ends the call with Err unless the code ignores that error.
Customers == {"c1", "c2"}
ImageIds == {"i1", "i2"}
NoDeployment == "none"
NoCall == [op |-> "none", customer_id |-> NoDeployment, image_id |-> NoDeployment,
           old |-> NoDeployment, result |-> ""]

RegFail(f) ==
    IF f = 0 THEN UNCHANGED regFailures
    ELSE regFailures + buildFailures < MaxFailures /\ regFailures' = regFailures + 1

\* Storage::get_deployment
get_deployment(c) == deployment[c]

\* Storage::get_deployment_by_image_id: the customer the reverse key names,
\* then that customer's deployment
get_deployment_by_image_id(i) ==
    IF imageKey[i] = NoDeployment
    THEN [found |-> FALSE]
    ELSE IF get_deployment(imageKey[i]) = NoDeployment
    THEN [found |-> FALSE]
    ELSE [found |-> TRUE, customer_id |-> imageKey[i],
          image_id |-> get_deployment(imageKey[i])]

\* Storage::list_customers
list_customers == deploymentsAll

\* mutant: EXISTS deployment:<c> always answers 0
deployment_exists_never(c) == FALSE

\* conn.exists(deployment:<c>)
deployment_exists(c) == deployment[c] # NoDeployment

\* the handlers' status for what the storage call returned
handler_status(op, res) ==
    IF res = "err" THEN "INTERNAL_SERVER_ERROR"
    ELSE IF res = "true" THEN "OK"
    ELSE IF op = "register" THEN "CONFLICT"
    ELSE "NOT_FOUND"

RegistryCall(op, c, i, res) ==
    [op |-> op, customer_id |-> c, image_id |-> i, old |-> deployment[c], result |-> res]

\* Storage::register_deployment: EXISTS (1), SET deployment:<c> (2),
\* SADD deployments:all (3), SET image_id:<i> (4)
register_deployment(c, i, f) ==
    /\ f \in 0..4
    /\ RegFail(f)
    /\ IF f = 1
       THEN /\ regLast' = RegistryCall("register", c, i, "err")
            /\ UNCHANGED <<deployment, deploymentsAll, imageKey>>
       ELSE IF deployment_exists(c)
       THEN /\ f = 0
            /\ regLast' = RegistryCall("register", c, i, "false")
            /\ UNCHANGED <<deployment, deploymentsAll, imageKey>>
       ELSE /\ deployment' = IF f = 2 THEN deployment ELSE [deployment EXCEPT ![c] = i]
            /\ deploymentsAll' = IF f \in {2, 3} THEN deploymentsAll
                                 ELSE deploymentsAll \cup {c}
            /\ imageKey' = IF f \in {2, 3, 4} THEN imageKey ELSE [imageKey EXCEPT ![i] = c]
            /\ regLast' = RegistryCall("register", c, i, IF f = 0 THEN "true" ELSE "err")

\* update removes image_id:<old> when get_deployment returned the old
\* deployment (an Err of that GET is ignored) and its image_id differs
update_cleanup(c, i, f) == f # 2 /\ deployment[c] # i

\* Storage::update_deployment: EXISTS (1), GET deployment:<c> (2),
\* DEL image_id:<old> (3), SET deployment:<c> (4), SET image_id:<i> (5)
update_deployment(c, i, f) ==
    LET cleaned == IF update_cleanup(c, i, f)
                   THEN [imageKey EXCEPT ![deployment[c]] = NoDeployment]
                   ELSE imageKey
    IN
    /\ f \in 0..5
    /\ RegFail(f)
    /\ IF f = 1
       THEN /\ regLast' = RegistryCall("update", c, i, "err")
            /\ UNCHANGED <<deployment, deploymentsAll, imageKey>>
       ELSE IF ~deployment_exists(c)
       THEN /\ f = 0
            /\ regLast' = RegistryCall("update", c, i, "false")
            /\ UNCHANGED <<deployment, deploymentsAll, imageKey>>
       ELSE /\ f = 3 => update_cleanup(c, i, f)
            /\ deployment' = IF f \in {3, 4} THEN deployment ELSE [deployment EXCEPT ![c] = i]
            /\ imageKey' = IF f = 3 THEN imageKey
                           ELSE IF f \in {4, 5} THEN cleaned
                           ELSE [cleaned EXCEPT ![i] = c]
            /\ regLast' = RegistryCall("update", c, i, IF f \in {0, 2} THEN "true" ELSE "err")
            /\ UNCHANGED deploymentsAll

\* Storage::delete_deployment: GET deployment:<c> (1, an Err is ignored),
\* DEL image_id:<image> (2), DEL deployment:<c> (3), SREM deployments:all (4)
delete_deployment(c, f) ==
    LET exists == deployment[c] # NoDeployment
        cleanup == f # 1 /\ exists
        cleaned == IF cleanup THEN [imageKey EXCEPT ![deployment[c]] = NoDeployment]
                   ELSE imageKey
    IN
    /\ f \in 0..4
    /\ RegFail(f)
    /\ f = 2 => cleanup
    /\ f = 4 => exists
    /\ imageKey' = IF f = 2 THEN imageKey ELSE cleaned
    /\ deployment' = IF f \in {2, 3} THEN deployment
                     ELSE [deployment EXCEPT ![c] = NoDeployment]
    /\ deploymentsAll' = IF f \in {2, 3, 4} \/ ~exists THEN deploymentsAll
                         ELSE deploymentsAll \ {c}
    /\ regLast' = RegistryCall("delete", c, NoDeployment,
                               IF f \in {2, 3, 4} THEN "err"
                               ELSE IF exists THEN "true" ELSE "false")

\* the registry's handlers: the storage mutex is held for the whole call
register_deployment_handler(c, i, f) ==
    register_deployment(c, i, f) /\ UNCHANGED <<admissionVars, backendVars, buildVars, compilerVars>>

update_deployment_handler(c, i, f) ==
    update_deployment(c, i, f) /\ UNCHANGED <<admissionVars, backendVars, buildVars, compilerVars>>

delete_deployment_handler(c, f) ==
    delete_deployment(c, f) /\ UNCHANGED <<admissionVars, backendVars, buildVars, compilerVars>>

\* ------------------------------------------------------------ build-service
JobIds == 1..MaxJobs
Workers == {"w1", "w2"}

\* get_job: None
NoJob ==
    [job_id |-> 0, customer_id |-> NoDeployment, status |-> "none",
     started_at |-> FALSE, completed_at |-> FALSE, image_id |-> NoDeployment,
     elf_path |-> FALSE, error |-> FALSE]

\* BuildJob::new
BuildJob_new(j, c) ==
    [job_id |-> j, customer_id |-> c, status |-> "queued",
     started_at |-> FALSE, completed_at |-> FALSE, image_id |-> NoDeployment,
     elf_path |-> FALSE, error |-> FALSE]

\* BuildJob::mark_building
mark_building(job) == [job EXCEPT !.status = "building", !.started_at = TRUE]

\* mutant: completed without the artifact path
mark_completed_no_elf(job, i) ==
    [job EXCEPT !.status = "completed", !.completed_at = TRUE, !.image_id = i]

\* BuildJob::mark_completed
mark_completed(job, i) ==
    [job EXCEPT !.status = "completed", !.completed_at = TRUE, !.image_id = i,
                !.elf_path = TRUE]

\* mutant: a failed job goes back to queued
mark_failed_requeued(job) ==
    [job EXCEPT !.status = "queued", !.completed_at = TRUE, !.error = TRUE]

\* BuildJob::mark_failed
mark_failed(job) ==
    [job EXCEPT !.status = "failed", !.completed_at = TRUE, !.error = TRUE]

\* mutant: the head of the list is read and left in place
blpop_peek(q) == [job_id |-> Head(q), rest |-> q]

\* BLPOP build:queue on a list that is not empty
blpop(q) == [job_id |-> Head(q), rest |-> Tail(q)]

IdleWorker == [pc |-> "pop_job", job_id |-> 0, job |-> NoJob, image |-> NoDeployment]
NotQueueing == [pc |-> "idle", job_id |-> 0, customer_id |-> NoDeployment]

BuildFail ==
    /\ buildFailures + regFailures < MaxFailures
    /\ buildFailures' = buildFailures + 1

\* mutant: queue_job goes to the RPUSH without having stored the record
QueueJobSetSkipped(c, j) ==
    /\ queueing.pc = "idle"
    /\ jobStore[j] = NoJob
    /\ queueing' = [pc |-> "rpush", job_id |-> j, customer_id |-> c]
    /\ UNCHANGED <<jobStore, buildFailures>>
    /\ UNCHANGED <<buildQueue, customerJobs, worker, pushed, popped>>
    /\ UNCHANGED <<admissionVars, backendVars, registryVars, compilerVars>>

\* queue_build_handler: a fresh uuid (ids are interchangeable: the smallest
\* one not in use), BuildJob::new, then queue_job under the storage mutex;
\* first command of queue_job: SET build:job:<id>
QueueJobSet(c, j) ==
    /\ queueing.pc = "idle"
    /\ jobStore[j] = NoJob
    /\ \A k \in JobIds : k < j => jobStore[k] # NoJob
    /\ \/ /\ jobStore' = [jobStore EXCEPT ![j] = BuildJob_new(j, c)]
          /\ queueing' = [pc |-> "rpush", job_id |-> j, customer_id |-> c]
          /\ UNCHANGED buildFailures
       \/ /\ BuildFail
          /\ UNCHANGED <<jobStore, queueing>>
    /\ UNCHANGED <<buildQueue, customerJobs, worker, pushed, popped>>
    /\ UNCHANGED <<admissionVars, backendVars, registryVars, compilerVars>>

\* queue_job: RPUSH build:queue <id>
QueueJobRpush ==
    /\ queueing.pc = "rpush"
    /\ \/ /\ buildQueue' = Append(buildQueue, queueing.job_id)
          /\ pushed' = Append(pushed, queueing.job_id)
          /\ queueing' = [queueing EXCEPT !.pc = "sadd"]
          /\ UNCHANGED buildFailures
       \/ /\ BuildFail
          /\ queueing' = NotQueueing
          /\ UNCHANGED <<buildQueue, pushed>>
    /\ UNCHANGED <<jobStore, customerJobs, worker, popped>>
    /\ UNCHANGED <<admissionVars, backendVars, registryVars, compilerVars>>

\* queue_job: SADD build:customer:<c> <id>
QueueJobSadd ==
    /\ queueing.pc = "sadd"
    /\ \/ /\ customerJobs' = [customerJobs EXCEPT ![queueing.customer_id] =
                                    @ \cup {queueing.job_id}]
          /\ UNCHANGED buildFailures
       \/ /\ BuildFail
          /\ UNCHANGED customerJobs
    /\ queueing' = NotQueueing
    /\ UNCHANGED <<jobStore, buildQueue, worker, pushed, popped>>
    /\ UNCHANGED <<admissionVars, backendVars, registryVars, compilerVars>>

\* Worker::run, pop_job: BLPOP build:queue (a timeout on the empty list
\* changes nothing); an Err is logged and the loop goes on after a sleep
PopJobBlpop(w) ==
    /\ worker[w].pc = "pop_job"
    /\ \/ /\ buildQueue # <<>>
          /\ buildQueue' = blpop(buildQueue).rest
          /\ popped' = Append(popped, [job_id |-> blpop(buildQueue).job_id, worker |-> w])
          /\ worker' = [worker EXCEPT ![w] =
                            [IdleWorker EXCEPT !.pc = "get_job",
                                               !.job_id = blpop(buildQueue).job_id]]
          /\ UNCHANGED buildFailures
       \/ /\ BuildFail
          /\ UNCHANGED <<buildQueue, popped, worker>>
    /\ UNCHANGED <<jobStore, customerJobs, queueing, pushed>>
    /\ UNCHANGED <<admissionVars, backendVars, registryVars, compilerVars>>

\* pop_job: get_job(<id>) after the BLPOP; None and Err both send the worker
\* back to the head of its loop
PopJobGet(w) ==
    /\ worker[w].pc = "get_job"
    /\ \/ /\ worker' = [worker EXCEPT ![w] =
                IF jobStore[worker[w].job_id] = NoJob THEN IdleWorker
                ELSE [@ EXCEPT !.pc = "mark_building", !.job = jobStore[worker[w].job_id]]]
          /\ UNCHANGED buildFailures
       \/ /\ BuildFail
          /\ worker' = [worker EXCEPT ![w] = IdleWorker]
    /\ UNCHANGED <<jobStore, buildQueue, customerJobs, queueing, pushed, popped>>
    /\ UNCHANGED <<admissionVars, backendVars, registryVars, compilerVars>>

\* update_job: SET build:job:<id>; run() only logs an Err
update_job(job, ok) == IF ok THEN [jobStore EXCEPT ![job.job_id] = job] ELSE jobStore

\* run(): job.mark_building(), update_job
MarkBuilding(w) ==
    LET job == mark_building(worker[w].job) IN
    /\ worker[w].pc = "mark_building"
    /\ worker' = [worker EXCEPT ![w] = [@ EXCEPT !.pc = "process_job", !.job = job]]
    /\ \/ /\ jobStore' = update_job(job, TRUE)
          /\ UNCHANGED buildFailures
       \/ /\ BuildFail
          /\ jobStore' = update_job(job, FALSE)
    /\ UNCHANGED <<buildQueue, customerJobs, queueing, pushed, popped>>
    /\ UNCHANGED <<admissionVars, backendVars, registryVars, compilerVars>>

\* process_job up to the image id: the DSL fails to parse, the code
\* generation or the build fails, or the ELF is not there (Err, and run()
\* marks the job failed); or the build yields an ELF and its image id
ProcessJob(w) ==
    /\ worker[w].pc = "process_job"
    /\ \/ worker' = [worker EXCEPT ![w] =
                [@ EXCEPT !.pc = "update_job", !.job = mark_failed(worker[w].job)]]
       \/ \E i \in ImageIds :
            worker' = [worker EXCEPT ![w] = [@ EXCEPT !.pc = "register_deployment", !.image = i]]
    /\ UNCHANGED <<jobStore, buildQueue, customerJobs, queueing, pushed, popped, buildFailures>>
    /\ UNCHANGED <<admissionVars, backendVars, registryVars, compilerVars>>

\* Worker::register_deployment: POST /api/deployments; anything but a 2xx
\* is an Err of process_job; a 2xx is followed by job.mark_completed
RegisterDeployment(w) ==
    LET job == worker[w].job
        i == worker[w].image
    IN
    /\ worker[w].pc = "register_deployment"
    /\ \/ /\ BuildFail
          /\ worker' = [worker EXCEPT ![w] =
                            [@ EXCEPT !.pc = "update_job", !.job = mark_failed(job)]]
          /\ UNCHANGED registryVars
       \/ /\ \E f \in 0..4 : register_deployment(job.customer_id, i, f)
          /\ worker' = [worker EXCEPT ![w] =
                [@ EXCEPT !.pc = "update_job",
                          !.job = IF handler_status("register", regLast'.result) = "OK"
                                  THEN mark_completed(job, i)
                                  ELSE mark_failed(job)]]
          /\ UNCHANGED buildFailures
    /\ UNCHANGED <<jobStore, buildQueue, customerJobs, queueing, pushed, popped>>
    /\ UNCHANGED <<admissionVars, backendVars, compilerVars>>

\* run(): the final update_job (the webhook that follows changes nothing here)
UpdateJob(w) ==
    /\ worker[w].pc = "update_job"
    /\ worker' = [worker EXCEPT ![w] = IdleWorker]
    /\ \/ /\ jobStore' = update_job(worker[w].job, TRUE)
          /\ UNCHANGED buildFailures
       \/ /\ BuildFail
          /\ jobStore' = update_job(worker[w].job, FALSE)
    /\ UNCHANGED <<buildQueue, customerJobs, queueing, pushed, popped>>
    /\ UNCHANGED <<admissionVars, backendVars, registryVars, compilerVars>>

WorkerStep(w) ==
    \/ PopJobBlpop(w)
    \/ PopJobGet(w)
    \/ MarkBuilding(w)
    \/ ProcessJob(w)
    \/ RegisterDeployment(w)
    \/ UpdateJob(w)

\* ----------------------------------------------------------- logic-compiler
\* Option::None of a number and of a parameter name
NoValue == -1
NoParam == "none"

\* the public parameters and the private inputs a guest may be run on
PublicParams == [min_p |-> 2, max_p |-> 4, min_age_p |-> 21, blocked |-> {2},
                 prohibited |-> {2}]
Dobs == {<<2006, 1, 1>>, <<2006, 1, 2>>, <<2000, 6, 15>>}
ItemLists == {{}, {1}, {1, 2}}
GuestInputs == [quantity : 0..5, dob : Dobs, items : ItemLists]
NoInput == [quantity |-> 0, dob |-> <<0, 0, 0>>, items |-> {}]

\* ValidationRule values: range checks with every combination of min,
\* min_param, max and max_param, age verifications with every combination
\* of min_age and min_age_param, a blacklist check, and rules without a field
RangeRules ==
    {[type |-> "range_check", field |-> "quantity", min |-> mn, min_param |-> mnp,
      max |-> mx, max_param |-> mxp] :
        mn \in {NoValue, 1}, mnp \in {NoParam, "min_p"},
        mx \in {NoValue, 3}, mxp \in {NoParam, "max_p"}}
    \cup {[type |-> "range_check", field |-> "", min |-> 1, min_param |-> NoParam,
           max |-> 3, max_param |-> NoParam]}

AgeRules ==
    {[type |-> "age_verification", dob_field |-> "dob", min_age |-> a, min_age_param |-> ap] :
        a \in {NoValue, 18}, ap \in {NoParam, "min_age_p"}}
    \cup {[type |-> "age_verification", dob_field |-> "", min_age |-> 18,
           min_age_param |-> NoParam]}

BlacklistRules ==
    {[type |-> "blacklist_check", field |-> "quantity", blacklist_param |-> "blocked"]}

\* array intersection checks as the JSON document spells them: must_be_empty
\* written as true, written as false, or left out
ArrayRules ==
    {[type |-> "array_intersection_check", field |-> "items",
      prohibited_param |-> "prohibited", must_be_empty |-> j] :
        j \in {"absent", "true", "false"}}
    \cup {[type |-> "array_intersection_check", field |-> "",
           prohibited_param |-> "prohibited", must_be_empty |-> "true"]}

ValidationRules == RangeRules \cup AgeRules \cup BlacklistRules \cup ArrayRules

\* #[serde(default)] must_be_empty: bool -- a field that is left out
\* deserializes to bool::default(), which is false
serde_default(j) == j = "true"

RuleSeqs == UNION {[1..n -> ValidationRules] : n \in 0..MaxRules}

Documents == [use_case : {"", "pharma"}, validation_rules : RuleSeqs]

\* DslParser::validate_rule: the error of the rule, or "ok"
validate_rule(rule) ==
    CASE rule.type = "range_check" ->
            IF rule.field = "" THEN "range_check: field cannot be empty"
            ELSE IF rule.min = NoValue /\ rule.min_param = NoParam
            THEN "range_check: must specify either 'min' or 'min_param'"
            ELSE IF rule.max = NoValue /\ rule.max_param = NoParam
            THEN "range_check: must specify either 'max' or 'max_param'"
            ELSE "ok"
      [] rule.type = "age_verification" ->
            IF rule.dob_field = "" THEN "age_verification: dob_field cannot be empty"
            ELSE IF rule.min_age = NoValue /\ rule.min_age_param = NoParam
            THEN "age_verification: must specify either 'min_age' or 'min_age_param'"
            ELSE "ok"
      [] rule.type = "blacklist_check" ->
            IF rule.field = "" THEN "blacklist_check: field cannot be empty"
            ELSE IF rule.blacklist_param = "" THEN "blacklist_check: blacklist_param cannot be empty"
            ELSE "ok"
      [] rule.type = "array_intersection_check" ->
            IF rule.field = "" THEN "array_intersection_check: field cannot be empty"
            ELSE IF rule.prohibited_param = ""
            THEN "array_intersection_check: prohibited_param cannot be empty"
            ELSE "ok"

RECURSIVE validate_rules(_, _)
\* the loop of DslParser::validate: the first rule that is invalid ends it
validate_rules(rules, idx) ==
    IF idx > Len(rules) THEN [ok |-> TRUE]
    ELSE IF validate_rule(rules[idx]) # "ok"
    THEN [ok |-> FALSE, rule |-> idx, error |-> validate_rule(rules[idx])]
    ELSE validate_rules(rules, idx + 1)

\* DslParser::validate
validate(d) ==
    IF d.use_case = "" THEN [ok |-> FALSE, rule |-> 0, error |-> "use_case cannot be empty"]
    ELSE IF d.validation_rules = <<>>
    THEN [ok |-> FALSE, rule |-> 0, error |-> "At least one validation rule is required"]
    ELSE validate_rules(d.validation_rules, 1)

\* generate_validation_rule: the block of one rule.  A literal wins over a
\* parameter name; with neither the block uses 0, u64::MAX or 18.
generate_validation_rule(rule, idx) ==
    CASE rule.type = "range_check" ->
            [check |-> "range_check", field |-> rule.field,
             min_value |-> IF rule.min # NoValue THEN [from |-> "literal", value |-> rule.min]
                           ELSE IF rule.min_param # NoParam
                           THEN [from |-> "param", name |-> rule.min_param]
                           ELSE [from |-> "literal", value |-> 0],
             max_value |-> IF rule.max # NoValue THEN [from |-> "literal", value |-> rule.max]
                           ELSE IF rule.max_param # NoParam
                           THEN [from |-> "param", name |-> rule.max_param]
                           ELSE [from |-> "u64::MAX"]]
      [] rule.type = "age_verification" ->
            [check |-> "age_verification", dob_field |-> rule.dob_field,
             min_age |-> IF rule.min_age # NoValue THEN [from |-> "literal", value |-> rule.min_age]
                         ELSE IF rule.min_age_param # NoParam
                         THEN [from |-> "param", name |-> rule.min_age_param]
                         ELSE [from |-> "literal", value |-> 18]]
      [] rule.type = "blacklist_check" ->
            [check |-> "blacklist_check", field |-> rule.field,
             blacklist |-> rule.blacklist_param]
      [] rule.type = "array_intersection_check" ->
            [check |-> "array_intersection_check", field |-> rule.field,
             prohibited |-> rule.prohibited_param,
             must_be_empty |-> serde_default(rule.must_be_empty)]

\* mutant: the blocks come out last rule first
generate_validations_reversed(d) ==
    [k \in 1..Len(d.validation_rules) |->
        generate_validation_rule(d.validation_rules[Len(d.validation_rules) + 1 - k],
                                 Len(d.validation_rules) + 1 - k)]

\* generate_validations: the blocks of validate_all, rules.iter().enumerate().map(..)
generate_validations(d) ==
    [k \in 1..Len(d.validation_rules) |-> generate_validation_rule(d.validation_rules[k], k)]

\* the generated calculate_age, with its fixed current date 2024-01-01
calculate_age(dob) ==
    IF 1 < dob[2] \/ (1 = dob[2] /\ 1 < dob[3]) THEN 2024 - dob[1] - 1 ELSE 2024 - dob[1]

\* the value a generated `let` binds
BoundValue(v) == IF v.from = "literal" THEN v.value ELSE PublicParams[v.name]

\* the condition under which a generated block executes `return false`
BlockReturnsFalse(block, input) ==
    CASE block.check = "range_check" ->
            \/ input.quantity < BoundValue(block.min_value)
            \/ block.max_value.from # "u64::MAX" /\ input.quantity > BoundValue(block.max_value)
      [] block.check = "age_verification" ->
            calculate_age(input.dob) < BoundValue(block.min_age)
      [] block.check = "blacklist_check" ->
            input.quantity \in PublicParams[block.blacklist]
      [] block.check = "array_intersection_check" ->
            LET has_intersection == input.items \cap PublicParams[block.prohibited] # {}
            IN block.must_be_empty /\ has_intersection

RECURSIVE run_blocks(_, _, _)
\* the body of the generated validate_all: block after block, then `true`
run_blocks(blocks, k, input) ==
    IF k > Len(blocks) THEN [result |-> TRUE, at |-> 0]
    ELSE IF BlockReturnsFalse(blocks[k], input) THEN [result |-> FALSE, at |-> k]
    ELSE run_blocks(blocks, k + 1, input)

validate_all(blocks, input) == run_blocks(blocks, 1, input)

NotCompiled == [stage |-> "document", parsed |-> [ok |-> FALSE], blocks |-> <<>>,
                ran |-> [result |-> FALSE, at |-> 0]]

\* no document is being compiled
CompilerIdle ==
    /\ dsl = [use_case |-> "", validation_rules |-> <<>>]
    /\ compiled = NotCompiled
    /\ guestInput = NoInput

\* DslParser::parse_str on a document that deserialized
ParseStr ==
    /\ compiled.stage = "document"
    /\ compiled' = [compiled EXCEPT !.stage = "parsed", !.parsed = validate(dsl)]
    /\ UNCHANGED <<dsl, guestInput>>
    /\ UNCHANGED <<admissionVars, backendVars, registryVars, buildVars>>

\* CodeGenerator::generate: generate_validations on the validated document
Generate ==
    /\ compiled.stage = "parsed"
    /\ compiled.parsed.ok
    /\ compiled' = [compiled EXCEPT !.stage = "generated", !.blocks = generate_validations(dsl)]
    /\ UNCHANGED <<dsl, guestInput>>
    /\ UNCHANGED <<admissionVars, backendVars, registryVars, buildVars>>

\* the guest runs validate_all on its inputs
RunValidateAll(input) ==
    /\ compiled.stage = "generated"
    /\ guestInput' = input
    /\ compiled' = [compiled EXCEPT !.stage = "ran", !.ran = validate_all(compiled.blocks, input)]
    /\ UNCHANGED dsl
    /\ UNCHANGED <<admissionVars, backendVars, registryVars, buildVars>>

BuildInit ==
    /\ jobStore = [j \in JobIds |-> NoJob]
    /\ buildQueue = <<>>
    /\ customerJobs = [c \in Customers |-> {}]
    /\ queueing = NotQueueing
    /\ worker = [w \in Workers |-> IdleWorker]
    /\ pushed = <<>>
    /\ popped = <<>>
    /\ buildFailures = 0

RegistryInit ==
    /\ deployment = [c \in Customers |-> NoDeployment]
    /\ imageKey = [i \in ImageIds |-> NoDeployment]
    /\ deploymentsAll = {}
    /\ regLast = NoCall
    /\ regFailures = 0

\* PaymentConfig::default, and from_env with the variables unset
DefaultConfig ==
    /\ minPaymentAmount = DEFAULT_MIN_PAYMENT_AMOUNT
    /\ minConfirmations = DEFAULT_MIN_CONFIRMATIONS

OtherInit == RegistryInit /\ DefaultConfig /\ BuildInit /\ CompilerIdle /\ BackendIdle

\* everything but the registry stands still
AdmissionIdle ==
    /\ nullifierKey = [n \in Nullifiers |-> "none"]
    /\ payment = [n \in Nullifiers |-> NoPayment]
    /\ unused = {}
    /\ reservedKey = [n \in Nullifiers |-> FALSE]
    /\ reservedSet = {}
    /\ chainHeight = 101
    /\ requirePayment = FALSE
    /\ now = 1
    /\ req = [r \in Reqs |-> IdleReq]
    /\ nullGen = [n \in Nullifiers |-> 0]
    /\ holders = [n \in Nullifiers |-> {}]
    /\ failures = 0
    /\ DefaultConfig

InitRegistry == AdmissionIdle /\ RegistryInit /\ BuildInit /\ CompilerIdle /\ BackendIdle

NextRegistry ==
    \/ \E c \in Customers, i \in ImageIds, f \in 0..4 : register_deployment_handler(c, i, f)
    \/ \E c \in Customers, i \in ImageIds, f \in 0..5 : update_deployment_handler(c, i, f)
    \/ \E c \in Customers, f \in 0..4 : delete_deployment_handler(c, f)

SpecRegistry == InitRegistry /\ [][NextRegistry]_vars

\* ------------------------------------------------------ the build pipeline
\* the build service (its queue handler and its workers) and the registry
\* the workers post to
InitBuild == AdmissionIdle /\ RegistryInit /\ BuildInit /\ CompilerIdle /\ BackendIdle

NextBuild ==
    \/ \E c \in Customers, j \in JobIds : QueueJobSet(c, j)
    \/ QueueJobRpush
    \/ QueueJobSadd
    \/ \E w \in Workers : WorkerStep(w)

SpecBuild == InitBuild /\ [][NextBuild]_vars

\* each worker's loop keeps running
SpecBuildFair == SpecBuild /\ \A w \in Workers : WF_vars(WorkerStep(w))

\* ------------------------------------------------------- the admission spec
UnusedOf(p) == {n \in Nullifiers : p[n].exists /\ ~p[n].used}

Init ==
    /\ nullifierKey = [n \in Nullifiers |-> "none"]
    /\ payment \in [Nullifiers -> InitialPayments]
    /\ unused = UnusedOf(payment)
    /\ reservedKey = [n \in Nullifiers |-> FALSE]
    /\ reservedSet = {}
    /\ chainHeight = 101
    /\ requirePayment \in BOOLEAN
    /\ now = 1
    /\ req = [r \in Reqs |-> IdleReq]
    /\ nullGen = [n \in Nullifiers |-> 0]
    /\ holders = [n \in Nullifiers |-> {}]
    /\ failures = 0
    /\ OtherInit

Step(r) ==
    \/ Start(r)
    \/ CheckAndSetNx(r)
    \/ CheckAndSetExpire(r)
    \/ CheckPaymentExists(r)
    \/ CheckPaymentHgetall(r)
    \/ CheckPaymentReserved(r)
    \/ CheckPaymentHeight(r)
    \/ ReservePaymentSet(r)
    \/ ReservePaymentSadd(r)
    \/ VerifyProof(r)
    \/ ReleaseDel(r)
    \/ ReleaseSrem(r)
    \/ ConfirmHset(r)
    \/ ConfirmSremUnused(r)
    \/ ConfirmDel(r)
    \/ ConfirmSremReserved(r)

Next ==
    \/ \E r \in Reqs : Step(r)
    \/ \E n \in Nullifiers : ExpireReservation(n)
    \/ \E n \in Nullifiers : ExpireNullifier(n)

Spec == Init /\ [][Next]_vars

\* ------------------------------- admission with payment required (policy)
\* REQUIRE_PAYMENT is set, and the watcher may have recorded a payment that
\* does not meet the policy (for one of the nullifiers)
InitPolicy ==
    /\ nullifierKey = [n \in Nullifiers |-> "none"]
    /\ payment \in {p \in [Nullifiers -> PolicyPayments] : p["n2"] \in InitialPayments}
    /\ unused = UnusedOf(payment)
    /\ reservedKey = [n \in Nullifiers |-> FALSE]
    /\ reservedSet = {}
    /\ chainHeight = 101
    /\ requirePayment = TRUE
    /\ now = 1
    /\ req = [r \in Reqs |-> IdleReq]
    /\ nullGen = [n \in Nullifiers |-> 0]
    /\ holders = [n \in Nullifiers |-> {}]
    /\ failures = 0
    /\ OtherInit

SpecPolicy == InitPolicy /\ [][Next]_vars

\* ------------------------------------------------------- the DSL compiler
\* any document of the bounded shape is parsed, compiled and run
InitCompiler ==
    /\ AdmissionIdle
    /\ RegistryInit
    /\ BuildInit
    /\ BackendIdle
    /\ dsl \in Documents
    /\ compiled = NotCompiled
    /\ guestInput = NoInput

NextCompiler ==
    \/ ParseStr
    \/ Generate
    \/ \E input \in GuestInputs : RunValidateAll(input)

SpecCompiler == InitCompiler /\ [][NextCompiler]_vars

\* ------------------------- admission under configured payment thresholds
\* MIN_PAYMENT_AMOUNT and MIN_CONFIRMATIONS as from_env may read them
MinAmounts == {DEFAULT_MIN_PAYMENT_AMOUNT - 1, DEFAULT_MIN_PAYMENT_AMOUNT}
MinConfirmationsSet == 0..2

\* payments at the thresholds: one zatoshi below the default minimum and at
\* it; in a block two below the tip, one below, at the tip, and above it
ThresholdPayments ==
    {PaymentRecord(a, h) : a \in {DEFAULT_MIN_PAYMENT_AMOUNT - 1, DEFAULT_MIN_PAYMENT_AMOUNT},
                           h \in 99..102}

InitThresholds ==
    /\ nullifierKey = [n \in Nullifiers |-> "none"]
    /\ payment \in {p \in [Nullifiers -> ThresholdPayments \cup {NoPayment}] :
                        p["n1"] # NoPayment /\ p["n2"] = NoPayment}
    /\ unused = UnusedOf(payment)
    /\ reservedKey = [n \in Nullifiers |-> FALSE]
    /\ reservedSet = {}
    /\ chainHeight = 101
    /\ requirePayment = TRUE
    /\ now = 1
    /\ req = [r \in Reqs |-> IdleReq]
    /\ nullGen = [n \in Nullifiers |-> 0]
    /\ holders = [n \in Nullifiers |-> {}]
    /\ failures = 0
    /\ minPaymentAmount \in MinAmounts
    /\ minConfirmations \in MinConfirmationsSet
    /\ RegistryInit
    /\ BuildInit
    /\ BackendIdle
    /\ CompilerIdle

\* one request task is enough to run check_payment on every such payment
NextThresholds ==
    \/ Step(1)
    \/ \E n \in Nullifiers : ExpireReservation(n)
    \/ \E n \in Nullifiers : ExpireNullifier(n)

SpecThresholds == InitThresholds /\ [][NextThresholds]_vars

\* --------------------------------------- the PaymentChecker, called directly
\* The methods of PaymentChecker are public: any number of tasks may call
\* them for any nullifier, in any order and concurrently.
ApiOps == {"reserve_payment", "confirm_payment", "release_reservation"}

RECURSIVE CallsMade(_)
CallsMade(rs) ==
    IF rs = {} THEN 0
    ELSE LET r == CHOOSE x \in rs : TRUE
         IN req[r].ncalls + CallsMade(rs \ {r})

\* a task calls one PaymentChecker method for nullifier n
ApiCall(r) ==
    /\ req[r].pc = "idle"
    /\ CallsMade(Reqs) < MaxCalls
    /\ \E n \in Nullifiers, op \in ApiOps :
            req' = [req EXCEPT ![r] =
                [IdleReq EXCEPT !.caller = "api", !.nullifier = n, !.pc = op,
                                !.ncalls = req[r].ncalls + 1]]
    /\ UNCHANGED <<storeVars, requirePayment, otherVars, now, nullGen, holders, failures>>

\* chrono::Utc::now() moves on.  Only confirm_payment reads the clock, and
\* only to stamp used_at: the clock is advanced once a stamp of the present
\* reading exists, which is when a later reading can be told from it.
Tick ==
    /\ now < MaxTime
    /\ \E n \in Nullifiers : payment[n].exists /\ payment[n].used_at = now
    /\ now' = now + 1
    /\ UNCHANGED <<storeVars, requirePayment, otherVars, req, nullGen, holders, failures>>

InitPay ==
    /\ nullifierKey = [n \in Nullifiers |-> "none"]
    /\ payment = [n \in Nullifiers |-> PaymentRecord(1000000, 100)]
    /\ unused = UnusedOf(payment)
    /\ reservedKey = [n \in Nullifiers |-> FALSE]
    /\ reservedSet = {}
    /\ chainHeight = 101
    /\ requirePayment = TRUE
    /\ now = 1
    /\ req = [r \in Reqs |-> IdleReq]
    /\ nullGen = [n \in Nullifiers |-> 0]
    /\ holders = [n \in Nullifiers |-> {}]
    /\ failures = 0
    /\ OtherInit

StepPay(r) ==
    \/ ApiCall(r)
    \/ ReservePaymentSet(r)
    \/ ReservePaymentSadd(r)
    \/ ReleaseDel(r)
    \/ ReleaseSrem(r)
    \/ ConfirmHset(r)
    \/ ConfirmSremUnused(r)
    \/ ConfirmDel(r)
    \/ ConfirmSremReserved(r)

NextPay ==
    \/ \E r \in Reqs : StepPay(r)
    \/ \E n \in Nullifiers : ExpireReservation(n)

SpecPay == InitPay /\ [][NextPay]_vars

\* the same, with the clock that confirm_payment reads moving on
NextPayClock ==
    \/ NextPay
    \/ Tick

SpecPayClock == InitPay /\ [][NextPayClock]_vars

\* The store removes reserved:<n> once its TTL has elapsed, whatever the tasks
\* do.  Nothing is assumed of the tasks: a caller may stop between any two
\* commands (its future is dropped) and never confirm or release.
SpecPayFair ==
    SpecPay /\ \A n \in Nullifiers : WF_vars(ExpireReservation(n))

\* ============================================================ properties
SameNullifier(r1, r2) ==
    /\ r1 # r2
    /\ req[r1].nullifier \in Nullifiers
    /\ req[r1].nullifier = req[r2].nullifier

\* the two requests ran their SET NX in the same lifetime of nullifier:<n>
SameLifetime(r1, r2) ==
    /\ SameNullifier(r1, r2)
    /\ req[r1].gen >= 0
    /\ req[r1].gen = req[r2].gen

\* C1 as stated: for each nullifier, at most one admission request is ever
\* answered OK, over any sequence of requests.
C1_AtMostOneAllowEver ==
    \A n \in Nullifiers :
        Cardinality({r \in Reqs : req[r].nullifier = n /\ req[r].status = "OK"}) <= 1

\* C1 amended: at most one request is answered OK per lifetime of the key
\* nullifier:<n> (it expires 30 days after it was set): only the request whose
\* SET NX created the key can be allowed, each lifetime has one creator, and a
\* request that finds the key present is answered Unauthenticated (replay).
C1_OneAllowPerKeyLifetime ==
    /\ \A r \in Reqs : req[r].status = "OK" => req[r].created
    /\ \A r1, r2 \in Reqs : SameLifetime(r1, r2) => ~(req[r1].created /\ req[r2].created)
    /\ \A r \in Reqs : req[r].is_new = "false" =>
            req[r].pc = "done" /\ req[r].status = "Unauthenticated"

C1_Witness ==
    \E r1, r2 \in Reqs :
        /\ SameLifetime(r1, r2)
        /\ req[r1].status = "OK"
        /\ req[r2].status = "Unauthenticated"
        /\ req[r2].message = <<"replay">>

\* C2 as stated: check_and_set(n) returns true at most once per nullifier,
\* whatever the sequence of calls.
C2_TrueAtMostOnceEver ==
    \A n \in Nullifiers :
        Cardinality({r \in Reqs : req[r].nullifier = n /\ req[r].is_new = "true"}) <= 1

\* C2 amended: per lifetime of the key nullifier:<n>, at most one call of
\* check_and_set(n) returns true, the one whose SET NX created the key; every
\* call that returns false found the key created by another call of the same
\* lifetime.
C2_TrueOncePerKeyLifetime ==
    /\ \A r1, r2 \in Reqs :
            SameLifetime(r1, r2) => ~(req[r1].is_new = "true" /\ req[r2].is_new = "true")
    /\ \A r \in Reqs : req[r].is_new = "true" => req[r].created
    /\ \A r \in Reqs : req[r].is_new = "false" =>
            /\ ~req[r].created
            /\ \E r2 \in Reqs : SameLifetime(r, r2) /\ req[r2].created

C2_Witness ==
    \E r1, r2 \in Reqs :
        /\ SameLifetime(r1, r2)
        /\ req[r1].is_new = "true"
        /\ req[r2].is_new = "false"

\* C3: among the requests that carry the same nullifier within one lifetime
\* of its key (in particular concurrent ones), at most one reaches
\* verify_proof; every other one never verifies and ends denied.
C3_AtMostOneReachesVerify ==
    /\ \A r \in Reqs : "verify_proof" \in req[r].calls => req[r].created
    /\ \A r1, r2 \in Reqs :
            (SameLifetime(r1, r2) /\ "verify_proof" \in req[r1].calls) =>
                /\ "verify_proof" \notin req[r2].calls
                /\ req[r2].pc \notin {"verify_proof", "release_reservation",
                                      "release_srem", "confirm_payment"}
                /\ req[r2].pc = "done" =>
                        req[r2].status \in {"Unauthenticated", "PermissionDenied"}

C3_Witness ==
    \E r1, r2 \in Reqs :
        /\ SameLifetime(r1, r2)
        /\ requirePayment
        /\ req[r1].pc \in {"release_reservation", "confirm_payment"}
        /\ "verify_proof" \in req[r1].calls
        /\ req[r2].pc = "done"
        /\ req[r2].status = "Unauthenticated"

\* the receipt the request decoded verifies against the configured image,
\* reports compliance and is bound to the header nullifier
ValidReceipt(r) ==
    /\ req[r].receipt.kind = "proof"
    /\ req[r].receipt.image = ImageI
    /\ req[r].receipt.compliance_result
    /\ req[r].receipt.nullifier = req[r].nullifier

\* the seal verified, so the journal was decoded
JournalDecoded(r) ==
    /\ req[r].receipt.kind = "proof"
    /\ req[r].receipt.image = ImageI

Decoded(r) == req[r].receipt.kind \in {"badhex", "baddeser", "proof"}

\* payment:<n> passes the amount and confirmation thresholds
SufficientPayment(n) ==
    /\ payment[n].exists
    /\ payment[n].amount >= minPaymentAmount
    /\ chainHeight # NoHeight
    /\ saturating_sub(chainHeight, payment[n].block_height) >= minConfirmations

ConfirmPcs == {"confirm_payment", "confirm_srem_unused", "confirm_del", "confirm_srem_reserved"}

\* C4: two requests with the same headers (a nullifier with a sufficient,
\* unused payment; the receipt valid for it) and no other request for that
\* nullifier, payment required, no store failure: once both are answered,
\* exactly one is OK, the other is denied as replay before verification, and
\* the store is as after one successful request: used = true, no
\* reservation, nullifier key present.
C4_ConcurrentSameNullifier ==
    \A r1, r2 \in Reqs :
        LET n == req[r1].nullifier IN
        ( /\ SameNullifier(r1, r2)
          /\ {r \in Reqs : req[r].nullifier = n} = {r1, r2}
          /\ req[r1].pc = "done" /\ req[r2].pc = "done"
          /\ requirePayment
          /\ failures = 0
          /\ nullGen[n] = 0
          /\ SufficientPayment(n)
          /\ \A r \in {r1, r2} :
                /\ req[r].receipt.kind # Missing
                /\ Decoded(r) => ValidReceipt(r) )
        =>
        ( /\ (req[r1].status = "OK") # (req[r2].status = "OK")
          /\ \A r \in {r1, r2} :
                req[r].status # "OK" =>
                    /\ req[r].status = "Unauthenticated"
                    /\ req[r].message = <<"replay">>
                    /\ "verify_proof" \notin req[r].calls
          /\ payment[n].used
          /\ n \notin unused
          /\ ~reservedKey[n]
          /\ n \notin reservedSet
          /\ nullifierKey[n] # "none" )

C4_Witness ==
    \E r1, r2 \in Reqs :
        /\ SameNullifier(r1, r2)
        /\ requirePayment /\ failures = 0 /\ nullGen[req[r1].nullifier] = 0
        /\ req[r1].status = "OK" /\ ValidReceipt(r1)
        /\ req[r2].pc = "done" /\ req[r2].status = "Unauthenticated"
        /\ req[r2].overlap
        /\ payment[req[r1].nullifier].used

\* C5: per nullifier at most one caller holds a live reservation: a
\* reserve_payment(n) succeeds only when no reservation for n is live, and a
\* call whose SET runs while one is live (not yet expired, confirmed or
\* released) returns the already-reserved error.
C5_ReservationExclusive ==
    /\ \A n \in Nullifiers : Cardinality(holders[n]) <= 1
    /\ \A n \in Nullifiers : reservedKey[n] <=> holders[n] # {}
    /\ \A r \in Reqs : req[r].took => req[r].saw = {}
    /\ \A r \in Reqs :
            (req[r].pc = "idle" /\ "reserve_payment" \in req[r].calls) =>
                /\ req[r].saw # {} <=> req[r].ret = "already_reserved"
                /\ req[r].ret = "ok" => req[r].took

C5_Witness ==
    \E r1, r2 \in Reqs :
        /\ SameNullifier(r1, r2)
        /\ holders[req[r1].nullifier] = {r1}
        /\ req[r1].ret = "ok" /\ "reserve_payment" \in req[r1].calls
        /\ req[r2].ret = "already_reserved"
        /\ req[r2].saw = {r1}


\* C6: confirm_payment is called only by a request whose proof verified
\* against the configured image, whose journal reports compliance and whose
\* journal nullifier equals the header nullifier; a payment is marked used
\* only by such a request.
C6_ConfirmOnlyAfterFullSuccess ==
    /\ \A r \in Reqs :
            (req[r].pc \in ConfirmPcs \/ "confirm_payment" \in req[r].calls) => ValidReceipt(r)
    /\ \A n \in Nullifiers :
            (payment[n].exists /\ payment[n].used) =>
                \E r \in Reqs : /\ req[r].nullifier = n
                                /\ ValidReceipt(r)
                                /\ "confirm_payment" \in req[r].calls

C6_Witness ==
    \E r1, r2 \in Reqs :
        /\ "confirm_payment" \in req[r1].calls
        /\ payment[req[r1].nullifier].used
        /\ r2 # r1
        /\ req[r2].payment_reserved
        /\ Decoded(r2) /\ ~ValidReceipt(r2)
        /\ req[r2].pc = "done"
        /\ ~payment[req[r2].nullifier].used

\* C7: a request whose header nullifier differs from the nullifier decoded
\* from the verified journal is never allowed and never confirms a payment,
\* with or without a payment reserved: it ends PermissionDenied, as
\* "nullifier mismatch" when the journal reports compliance.
C7_MismatchDenied ==
    \A r \in Reqs :
        (JournalDecoded(r) /\ req[r].receipt.nullifier # req[r].nullifier) =>
            /\ req[r].status # "OK"
            /\ req[r].pc \notin ConfirmPcs
            /\ "confirm_payment" \notin req[r].calls
            /\ req[r].pc = "done" =>
                    /\ req[r].status = "PermissionDenied"
                    /\ req[r].receipt.compliance_result
                            => req[r].message = <<"nullifier mismatch">>

C7_Witness ==
    \E r \in Reqs :
        /\ JournalDecoded(r)
        /\ req[r].receipt.compliance_result
        /\ req[r].receipt.nullifier # req[r].nullifier
        /\ req[r].payment_reserved
        /\ req[r].pc = "done"
        /\ req[r].message = <<"nullifier mismatch">>

C9_AllowAfterConfirmAttempt ==
    \A r \in Reqs :
        (requirePayment /\ req[r].status = "OK") =>
            /\ req[r].payment_reserved
            /\ "confirm_payment" \in req[r].calls

C9_Witness ==
    \E r \in Reqs :
        /\ requirePayment /\ req[r].status = "OK"
        /\ "confirm_payment" \in req[r].calls
        /\ failures > 0
        /\ ~payment[req[r].nullifier].used

\* C10: after a request was answered OK with payment required and no store
\* failure: the payment record is used with used_at stamped, the nullifier is
\* out of payments:unused, reserved:<N> is absent, and nullifier:<N> is present
\* (until its own 30-day expiry).
C10_StoreAfterAllow ==
    \A r \in Reqs :
        LET n == req[r].nullifier IN
        (requirePayment /\ failures = 0 /\ req[r].status = "OK") =>
            /\ payment[n].exists
            /\ payment[n].used
            /\ payment[n].used_at # NoTime
            /\ n \notin unused
            /\ ~reservedKey[n]
            /\ nullGen[n] = req[r].gen => nullifierKey[n] # "none"

C10_Witness ==
    \E r \in Reqs :
        /\ requirePayment /\ failures = 0 /\ req[r].status = "OK"
        /\ payment[req[r].nullifier].used
        /\ nullifierKey[req[r].nullifier] = "ttl"

\* C11: a request whose SET NX finds nullifier:<n> present is answered
\* Unauthenticated (replay) by that very step; the step leaves the whole
\* store as it was, and the request calls neither the payment store nor the
\* verifier.
C11_ReplayChangesNothing ==
    /\ [](\A r \in Reqs : req[r].is_new = "false" =>
            /\ req[r].pc = "done"
            /\ req[r].status = "Unauthenticated"
            /\ req[r].message = <<"replay">>
            /\ req[r].calls = {"check_and_set"})
    /\ [][\A r \in Reqs :
            ( /\ req[r].pc = "check_and_set"
              /\ nullifierKey[req[r].nullifier] # "none"
              /\ req'[r] # req[r]
              /\ req'[r].is_new # "err" )
            => /\ req'[r].is_new = "false"
               /\ req'[r].pc = "done"
               /\ UNCHANGED storeVars]_vars

C11_Witness ==
    \E r1, r2 \in Reqs :
        /\ SameLifetime(r1, r2)
        /\ requirePayment
        /\ req[r1].status = "OK"
        /\ payment[req[r1].nullifier].used
        /\ req[r2].is_new = "false"
        /\ req[r2].pc = "done"

\* the command request r is about to run makes check_payment turn the
\* payment down: not found, already used, reserved, below the minimum
\* amount, or short of confirmations
CheckPaymentRejects(r) ==
    LET n == req[r].nullifier IN
    /\ req[r].caller = "check"
    /\ \/ req[r].pc = "check_payment" /\ ~payment[n].exists
       \/ req[r].pc = "hgetall" /\ payment[n].exists /\ payment[n].used
       \/ req[r].pc = "exists_reserved" /\ reservedKey[n]
       \/ req[r].pc = "exists_reserved" /\ req[r].info.amount < minPaymentAmount
       \/ /\ req[r].pc = "get_height"
          /\ chainHeight # NoHeight
          /\ saturating_sub(chainHeight, req[r].info.block_height) < minConfirmations

PolicyReasons == {"not_found", "used", "reserved", "amount", "confirmations"}

\* C12: with payment required, the step at which check_payment turns the
\* payment down answers PermissionDenied and leaves the store alone; the
\* request has made no reservation and has not run the verifier, and the
\* nullifier:<n> key it created stays set.
C12_PaymentRejected ==
    /\ [][\A r \in Reqs :
            (CheckPaymentRejects(r) /\ req'[r] # req[r] /\ failures' = failures) =>
                /\ req'[r].pc = "done"
                /\ req'[r].status = "PermissionDenied"
                /\ req'[r].message[2] \in PolicyReasons
                /\ UNCHANGED storeVars
                /\ nullifierKey'[req[r].nullifier] # "none"]_vars
    /\ [](\A r \in Reqs :
            ( /\ req[r].pc = "done"
              /\ Len(req[r].message) = 2
              /\ req[r].message[1] = "payment verification failed" ) =>
                /\ req[r].status = "PermissionDenied"
                /\ req[r].created
                /\ ~req[r].took
                /\ ~req[r].payment_reserved
                /\ req[r].calls = {"check_and_set", "check_payment"}
                /\ nullGen[req[r].nullifier] = req[r].gen =>
                        nullifierKey[req[r].nullifier] # "none")

C12_Witness ==
    \E r1, r2 \in Reqs :
        /\ req[r1].pc = "done" /\ req[r2].pc = "done"
        /\ req[r1].status = "PermissionDenied"
        /\ req[r1].message = <<"payment verification failed", "confirmations">>
        /\ req[r2].status = "PermissionDenied"
        /\ req[r2].message = <<"payment verification failed", "not_found">>
        /\ nullifierKey[req[r2].nullifier] # "none"
        /\ ~reservedKey[req[r2].nullifier]

\* C13: with payment required, a request whose verification fails after it
\* reserved the payment (bad receipt bytes, a seal for another image, a
\* non-compliant journal) is answered PermissionDenied after calling
\* release_reservation; when no store command has failed, at the moment of
\* the answer reserved:<n> is absent and the payment record is still unused.
C13_VerifyFailureReleases ==
    /\ [](\A r \in Reqs :
            ( /\ requirePayment
              /\ req[r].pc = "done"
              /\ req[r].payment_reserved
              /\ Decoded(r)
              /\ ~(JournalDecoded(r) /\ req[r].receipt.compliance_result) ) =>
                /\ req[r].status = "PermissionDenied"
                /\ "release_reservation" \in req[r].calls
                /\ "confirm_payment" \notin req[r].calls)
    /\ [][\A r \in Reqs :
            LET n == req[r].nullifier IN
            ( /\ requirePayment
              /\ failures' = 0
              /\ req[r].pc # "done"
              /\ req'[r].pc = "done"
              /\ req'[r].payment_reserved
              /\ req'[r].status # "OK" ) =>
                /\ req'[r].status = "PermissionDenied"
                /\ ~reservedKey'[n]
                /\ n \notin reservedSet'
                /\ payment'[n].exists
                /\ ~payment'[n].used
                /\ n \in unused']_vars

C13_Witness ==
    \E r \in Reqs :
        /\ requirePayment /\ failures = 0
        /\ req[r].pc = "done"
        /\ req[r].payment_reserved
        /\ req[r].receipt = [kind |-> "proof", image |-> ImageJ]
        /\ req[r].status = "PermissionDenied"
        /\ req[r].message = <<"proof verification failed">>
        /\ ~reservedKey[req[r].nullifier]
        /\ ~payment[req[r].nullifier].used

\* C14: a request that has called confirm_payment is answered OK with the
\* header nullifier as x-payment-nullifier, whether or not the confirmation
\* went through: the step at which a command of confirm_payment fails
\* produces the OK response.
C14_ConfirmFailureStillAllows ==
    /\ [](\A r \in Reqs :
            (req[r].caller = "check" /\ req[r].pc = "done"
                /\ "confirm_payment" \in req[r].calls) =>
                /\ req[r].status = "OK"
                /\ req[r].message = <<"proof verified successfully", req[r].nullifier>>
                /\ ValidReceipt(r))
    /\ [][\A r \in Reqs :
            ( /\ req[r].caller = "check"
              /\ req[r].pc \in ConfirmPcs
              /\ req'[r] # req[r]
              /\ failures' = failures + 1 ) =>
                /\ req'[r].pc = "done"
                /\ req'[r].status = "OK"
                /\ req'[r].message[2] = req[r].nullifier]_vars

C14_Witness ==
    \E r \in Reqs :
        /\ req[r].caller = "check" /\ req[r].pc = "done"
        /\ req[r].status = "OK"
        /\ "confirm_payment" \in req[r].calls
        /\ req[r].message[2] = req[r].nullifier
        /\ failures > 0
        /\ payment[req[r].nullifier].used
        /\ reservedKey[req[r].nullifier]

\* C15 as stated: once a request has ended with its reservation cleared and
\* the payment still unused (released after a failed verification, or
\* expired after a failed confirmation), a later request with the same
\* nullifier is not turned away by the replay check, so that it can go on to
\* be admitted.
C15_RetryAfterRelease ==
    [][\A r1, r2 \in Reqs :
        LET n == req[r1].nullifier IN
        ( /\ r1 # r2
          /\ req[r1].pc = "done"
          /\ req[r1].payment_reserved
          /\ \/ req[r1].status = "PermissionDenied" /\ "release_reservation" \in req[r1].calls
             \/ req[r1].status = "OK" /\ "confirm_payment" \in req[r1].calls
          /\ payment[n].exists /\ ~payment[n].used
          /\ ~reservedKey[n]
          /\ req[r2].nullifier = n
          /\ req[r2].pc = "check_and_set"
          /\ req'[r2] # req[r2]
          /\ failures' = failures )
        => req'[r2].pc # "done"]_vars

\* C16: a reservation that exists is eventually absent even when no task
\* confirms or releases it (the TTL removes it), and a reserve_payment(n)
\* whose SET runs while reserved:<n> is absent takes the reservation.
C16_ReservationEventuallyAbsent ==
    /\ \A n \in Nullifiers : reservedKey[n] ~> ~reservedKey[n]
    /\ [][\A r \in Reqs :
            LET n == req[r].nullifier IN
            ( /\ req[r].pc = "reserve_payment"
              /\ ~reservedKey[n]
              /\ req'[r] # req[r]
              /\ failures' = failures ) =>
                /\ reservedKey'[n]
                /\ req'[r].took
                /\ req'[r].pc = "sadd_reserved"]_vars

\* two calls in all, both reserve_payment(n), both successful: the first
\* reservation went by TTL
C16_Witness ==
    \E r1, r2 \in Reqs :
        /\ r1 # r2
        /\ CallsMade(Reqs) = 2
        /\ req[r1].nullifier = req[r2].nullifier
        /\ req[r1].pc = "idle" /\ req[r1].ret = "ok" /\ req[r1].took
        /\ req[r2].pc = "idle" /\ req[r2].ret = "ok" /\ req[r2].took
        /\ holders[req[r1].nullifier] = {r2}

\* the commands of check() that run before the decision: check_and_set,
\* check_payment (with get_current_block_height) and reserve_payment
PreDecisionPcs ==
    {"check_and_set", "expire", "check_payment", "hgetall", "exists_reserved",
     "get_height", "reserve_payment", "sadd_reserved"}

\* C17 as stated: the step at which a store command of check_and_set,
\* check_payment, get_current_block_height or reserve_payment fails answers
\* the request Unavailable.
C17_StoreFailureUnavailable ==
    [][\A r \in Reqs :
        ( /\ req[r].caller = "check"
          /\ req[r].pc \in PreDecisionPcs
          /\ req'[r] # req[r]
          /\ failures' = failures + 1 ) =>
            /\ req'[r].pc = "done"
            /\ req'[r].status = "Unavailable"]_vars

\* C18 as stated: a request whose x-zk-nullifier is malformed, or whose
\* x-zk-receipt turned out not to be hex or not to deserialize, is answered
\* InvalidArgument.
C18_MalformedInvalidArgument ==
    \A r \in Reqs :
        ( /\ req[r].caller = "check"
          /\ req[r].pc = "done"
          /\ \/ req[r].nullifier = Malformed
             \/ req[r].receipt.kind \in {"badhex", "baddeser"} )
        => req[r].status = "InvalidArgument"

\* C19 as stated, in its weakest reading: whenever no operation is in
\* progress, no payment record is both a member of payments:unused and
\* marked used = true.
C19_UnusedXorUsed ==
    (\A r \in Reqs : req[r].pc = "idle") =>
        \A n \in Nullifiers : ~(n \in unused /\ payment[n].exists /\ payment[n].used)

\* C20 as stated, for the payment record: a confirm_payment(n) that finds the
\* record already marked used leaves its used flag and used_at as the first
\* confirmation wrote them.
C20_ConfirmIdempotent ==
    [][\A r \in Reqs :
        LET n == req[r].nullifier IN
        ( /\ req[r].pc = "confirm_payment"
          /\ req'[r] # req[r]
          /\ payment[n].exists
          /\ payment[n].used )
        => payment'[n] = payment[n]]_vars

\* C22 as stated: after any sequence of register, update and delete calls in
\* which no store command failed, customer c's deployment has image i exactly
\* when the lookup by image i returns the deployment of customer c.
C22_ForwardReverseAgree ==
    regFailures = 0 =>
        \A c \in Customers, i \in ImageIds :
            (get_deployment(c) = i) <=>
                ( /\ get_deployment_by_image_id(i).found
                  /\ get_deployment_by_image_id(i).customer_id = c )

\* C23 as stated: after an update_deployment that returned true and changed
\* c's image from old to new, the lookup by old finds nothing and the lookup
\* by new finds c's deployment; after a delete_deployment(c) that returned
\* true, get(c) and the lookup by c's former image find nothing and c is not
\* listed.
C23_UpdateDeleteLookups ==
    LET c == regLast.customer_id IN
    /\ (regLast.op = "update" /\ regLast.result = "true"
            /\ regLast.old # regLast.image_id) =>
            /\ ~get_deployment_by_image_id(regLast.old).found
            /\ get_deployment_by_image_id(regLast.image_id).found
            /\ get_deployment_by_image_id(regLast.image_id).customer_id = c
            /\ get_deployment_by_image_id(regLast.image_id).image_id = regLast.image_id
    /\ (regLast.op = "delete" /\ regLast.result = "true") =>
            /\ get_deployment(c) = NoDeployment
            /\ ~get_deployment_by_image_id(regLast.old).found
            /\ c \notin list_customers

\* C24: a register for a customer that has a deployment, and an update or a
\* delete for a customer that has none, leave deployment:<c>, image_id:<i>
\* and deployments:all as they were; the call returns false (Conflict for
\* register, NotFound for update and delete) unless a store command failed.
C24_RejectedCallsChangeNothing ==
    [][LET call == regLast'
           had == deployment[call.customer_id] # NoDeployment
       IN ( \/ call.op = "register" /\ had
            \/ call.op \in {"update", "delete"} /\ ~had ) =>
            /\ UNCHANGED <<deployment, imageKey, deploymentsAll>>
            /\ call.result \in {"false", "err"}
            /\ regFailures' = regFailures =>
                    /\ call.result = "false"
                    /\ handler_status(call.op, call.result) =
                            IF call.op = "register" THEN "CONFLICT" ELSE "NOT_FOUND"]_vars

C24_Witness ==
    /\ regLast.op = "register"
    /\ regLast.result = "false"
    /\ deployment[regLast.customer_id] \in ImageIds \ {regLast.image_id}
    /\ imageKey[regLast.image_id] = NoDeployment


\* C21: check_payment counts confirmations as chain height minus the
\* payment's block height, 0 when the block height is above the chain height,
\* and turns the payment down for confirmations exactly when that count is
\* below min_confirmations; it turns it down for the amount exactly when the
\* amount is below min_payment_amount.
C21_ThresholdsExact ==
    [][\A r \in Reqs :
        LET rq == req[r]
            p == payment[rq.nullifier]
            diff == chainHeight - p.block_height
            confirmations == IF diff > 0 THEN diff ELSE 0
            step == rq.caller = "check" /\ req'[r] # rq /\ failures' = failures
            denied(why) == /\ req'[r].pc = "done"
                           /\ req'[r].status = "PermissionDenied"
                           /\ req'[r].message = <<"payment verification failed", why>>
        IN /\ (step /\ rq.pc = "exists_reserved" /\ ~reservedKey[rq.nullifier]) =>
                    IF p.amount < minPaymentAmount THEN denied("amount")
                    ELSE req'[r].pc = "get_height"
           /\ (step /\ rq.pc = "get_height") =>
                    IF confirmations < minConfirmations THEN denied("confirmations")
                    ELSE req'[r].pc = "reserve_payment"]_vars

\* a payment in a block above the chain height has been turned down for
\* having 0 confirmations
C21_Witness ==
    \E r \in Reqs :
        /\ req[r].pc = "done"
        /\ req[r].message = <<"payment verification failed", "confirmations">>
        /\ payment[req[r].nullifier].block_height > chainHeight
        /\ payment[req[r].nullifier].amount = minPaymentAmount
        /\ minConfirmations = 1


\* queued -> building -> {completed, failed}
StatusRank(s) ==
    CASE s = "queued" -> 0
      [] s = "building" -> 1
      [] s \in {"completed", "failed"} -> 2

\* C25: the status stored under build:job:<id> (what get_job returns) only
\* moves forward along queued -> building -> {completed, failed}: no step
\* takes it back, and no step changes it once it is completed or failed.
C25_StatusNeverGoesBack ==
    [][\A j \in JobIds :
        jobStore[j] # NoJob =>
            /\ jobStore'[j] # NoJob
            /\ \/ jobStore'[j].status = jobStore[j].status
               \/ StatusRank(jobStore[j].status) < StatusRank(jobStore'[j].status)]_vars

C25_Witness ==
    /\ jobStore[1].status = "completed" /\ jobStore[1].started_at
    /\ jobStore[2].status = "failed" /\ jobStore[2].started_at
    /\ \A w \in Workers : worker[w].pc = "pop_job"

\* C26: the job ids handed out by BLPOP are, in order, the ids that queue_job
\* pushed: each pushed id goes to one worker and to no second one, in push
\* order; and while the workers keep polling every pushed id is handed out.
C26_EachJobToOneWorkerInOrder ==
    /\ [](/\ Len(popped) <= Len(pushed)
          /\ \A k \in 1..Len(popped) : popped[k].job_id = pushed[k]
          /\ \A k, l \in 1..Len(pushed) : pushed[k] = pushed[l] => k = l)
    /\ \A j \in JobIds :
          (\E k \in 1..Len(pushed) : pushed[k] = j) ~>
              (\E k \in 1..Len(popped) : popped[k].job_id = j)

C26_Witness ==
    /\ pushed = <<1, 2>>
    /\ Len(popped) = 2
    /\ popped[1].job_id = 1 /\ popped[2].job_id = 2
    /\ popped[1].worker # popped[2].worker

\* C27: when a worker has built image i for tenant c and its POST to the
\* registry goes through without a failed command, the registry maps c to i
\* and i to c afterwards and the job is completed, also when c already had a
\* deployment.
C27_BuildSuccessUpserts ==
    [][\A w \in Workers :
        ( /\ worker[w].pc = "register_deployment"
          /\ worker'[w].pc = "update_job"
          /\ regFailures' = regFailures
          /\ buildFailures' = buildFailures ) =>
            /\ deployment'[worker[w].job.customer_id] = worker[w].image
            /\ imageKey'[worker[w].image] = worker[w].job.customer_id
            /\ worker'[w].job.status = "completed"]_vars

\* C28: every stored job has the fields its status calls for: completed has
\* image_id and elf_path and no error; failed has error and no image_id;
\* queued and building have no image_id, elf_path, error or completed_at.
C28_FieldsMatchStatus ==
    \A j \in JobIds :
        LET job == jobStore[j] IN
        /\ job.status = "completed" =>
                job.image_id # NoDeployment /\ job.elf_path /\ ~job.error
        /\ job.status = "failed" => job.error /\ job.image_id = NoDeployment
        /\ job.status \in {"queued", "building"} =>
                /\ job.image_id = NoDeployment
                /\ ~job.elf_path
                /\ ~job.error
                /\ ~job.completed_at

C28_Witness ==
    \E j1, j2 \in JobIds :
        /\ jobStore[j1].status = "completed"
        /\ jobStore[j1].image_id \in ImageIds /\ jobStore[j1].elf_path
        /\ jobStore[j2].status = "failed" /\ jobStore[j2].error
        /\ jobStore[j2].customer_id = jobStore[j1].customer_id
        /\ regLast.result = "false"


ExactlyOne(a, b) == (a /\ ~b) \/ (~a /\ b)

\* C29: a document DslParser accepts has, in every range_check, exactly one
\* of min / min_param and exactly one of max / max_param, and in every
\* age_verification exactly one of min_age / min_age_param: a rule with both
\* members of a pair, or with neither, is rejected.
C29_ExactlyOneOfEachPair ==
    (compiled.stage # "document" /\ compiled.parsed.ok) =>
        \A k \in 1..Len(dsl.validation_rules) :
            LET rule == dsl.validation_rules[k] IN
            /\ rule.type = "range_check" =>
                    /\ ExactlyOne(rule.min # NoValue, rule.min_param # NoParam)
                    /\ ExactlyOne(rule.max # NoValue, rule.max_param # NoParam)
            /\ rule.type = "age_verification" =>
                    ExactlyOne(rule.min_age # NoValue, rule.min_age_param # NoParam)

\* the rules of the document that turn the input down, each taken alone
FailingRules(d, input) ==
    {k \in 1..Len(d.validation_rules) :
        BlockReturnsFalse(generate_validation_rule(d.validation_rules[k], k), input)}

\* C30: for a validated document validate_all has one block per rule, the
\* k-th block being the check of the k-th rule; run on an input it returns
\* false at the first rule, in document order, that the input fails, and
\* true only when the input passes every rule.
C30_OneBlockPerRuleInOrder ==
    /\ compiled.stage \in {"generated", "ran"} =>
            /\ Len(compiled.blocks) = Len(dsl.validation_rules)
            /\ \A k \in 1..Len(dsl.validation_rules) :
                    /\ compiled.blocks[k].check = dsl.validation_rules[k].type
                    /\ compiled.blocks[k] = generate_validation_rule(dsl.validation_rules[k], k)
    /\ compiled.stage = "ran" =>
            LET failing == FailingRules(dsl, guestInput) IN
            /\ compiled.ran.result <=> failing = {}
            /\ failing # {} =>
                    /\ compiled.ran.at \in failing
                    /\ \A k \in failing : compiled.ran.at <= k

\* the second of two different rules is the first one the input fails
C30_Witness ==
    /\ compiled.stage = "ran"
    /\ Len(dsl.validation_rules) = 2
    /\ dsl.validation_rules[1].type = "age_verification"
    /\ dsl.validation_rules[2].type = "range_check"
    /\ ~compiled.ran.result
    /\ compiled.ran.at = 2


\* ------------------------------------------------------------------- C37
\* the answer check gives when only the nullifier index and the proof count
OutcomeWithoutPayment(r) ==
    IF req[r].is_new = "err" THEN "Unavailable"
    ELSE IF req[r].is_new = "false" THEN "Unauthenticated"
    ELSE IF ValidReceipt(r) THEN "OK"
    ELSE "PermissionDenied"

\* C37: when payment is not required, an admission request calls no Payment
\* Store operation (the payment records, the reservations and
\* payments:reserved stay as they were), and its answer is the one the
\* nullifier index and the proof alone determine.
C37_NoPaymentOpsWhenNotRequired ==
    ~requirePayment =>
        /\ \A r \in Reqs : req[r].caller = "check" =>
            /\ req[r].calls \subseteq {"check_and_set", "verify_proof"}
            /\ ~req[r].payment_reserved
            /\ (req[r].pc = "done" /\ "check_and_set" \in req[r].calls)
                    => req[r].status = OutcomeWithoutPayment(r)
        /\ \A n \in Nullifiers :
            /\ ~reservedKey[n]
            /\ n \notin reservedSet
            /\ payment[n].exists => ~payment[n].used

\* payment is not required and a request without any payment on record was
\* answered OK
C37_Witness ==
    /\ ~requirePayment
    /\ \E r \in Reqs :
        /\ req[r].caller = "check"
        /\ req[r].pc = "done"
        /\ req[r].status = "OK"
        /\ ~payment[req[r].nullifier].exists


\* ------------------------------------------------------------------- C32
\* request r is between two commands of one Payment Store operation
MidPaymentOperation(r) ==
    req[r].pc \in {"sadd_reserved", "release_srem", "confirm_srem_unused",
                   "confirm_del", "confirm_srem_reserved"}

\* C32 as stated: whenever no Payment Store operation is half-way (each one
\* has completed, or a reservation TTL has elapsed), payments:reserved holds
\* exactly the nullifiers whose reserved:<n> key exists.
C32_ReservedSetAgreesWithKeys ==
    (\A r \in Reqs : ~MidPaymentOperation(r))
        => reservedSet = {n \in Nullifiers : reservedKey[n]}


\* ------------------------------------------------------------------- C33
\* C33 as stated: when reserve_payment(n) has returned Err to check (the
\* request is denied with payment_reserved false and no release is called),
\* no reserved:<n> key created by that call is left in the store.
C33_FailedReserveLeavesNoKey ==
    \A r \in Reqs :
        ( /\ req[r].caller = "check"
          /\ req[r].pc = "done"
          /\ req[r].message # <<>>
          /\ req[r].message[1] = "failed to reserve payment" )
        => ~(reservedKey[req[r].nullifier] /\ r \in holders[req[r].nullifier])


\* ------------------------------------------------------------------- C35
\* request r, inside check, runs the DEL of release_reservation or of
\* confirm_payment in this step and the DEL removes a live reserved:<n>
CheckDeletesReservation(r, n) ==
    /\ req[r].caller = "check"
    /\ req[r].nullifier = n
    /\ req[r].pc \in {"release_reservation", "confirm_del"}
    /\ req'[r].pc # req[r].pc
    /\ reservedKey[n]
    /\ ~reservedKey'[n]

\* C35: a reserved:<n> that check's release_reservation or confirm_payment
\* deletes was set by the same request, never by another request, also when
\* the request's own reservation has expired by TTL before the DEL.
C35_DeletesOnlyOwnReservation ==
    [][\A r \in Reqs : \A n \in Nullifiers :
        CheckDeletesReservation(r, n) => holders[n] = {r}]_vars

\* a request's DEL has run while the other request was in flight, and no
\* reservation of its nullifier is left
C35_Witness ==
    \E r1, r2 \in Reqs :
        /\ r1 # r2
        /\ req[r1].caller = "check"
        /\ req[r1].pc \in {"release_srem", "confirm_srem_reserved"}
        /\ ~reservedKey[req[r1].nullifier]
        /\ req[r2].caller = "check"
        /\ req[r2].pc \notin {"idle", "done"}


\* ---------------------------------------- zcash-backend Storage methods
\* calls of Storage methods one writer makes
MaxWrites == 1

\* the ReceivedPayment a writer inserts: used "false", used_at ""
ReceivedPayment == PaymentRecord(1000000, 100)

\* the method returns to the writer
StorageReturn(w, res) ==
    [writer[w] EXCEPT !.pc = "idle", !.ret = res]

\* hset_multiple(payment:<n>, [nullifier, amount, tx_id, block_height,
\* timestamp, used, used_at]) writes every field, present or not
hset_payment(p) == ReceivedPayment

\* insert_payment: conn.exists(payment:<n>)
InsertPaymentExists(w, n) ==
    /\ writer[w].pc = "idle"
    /\ writer[w].ncalls < MaxWrites
    /\ LET wr == [writer[w] EXCEPT !.op = "insert_payment", !.nullifier = n,
                                  !.ret = "", !.ncalls = @ + 1]
       IN \/ /\ writer' = [writer EXCEPT ![w] =
                    IF payment[n].exists THEN [wr EXCEPT !.ret = "false"]
                    ELSE [wr EXCEPT !.pc = "hset"]]
             /\ UNCHANGED failures
          \/ /\ Fail
             /\ writer' = [writer EXCEPT ![w] = [wr EXCEPT !.ret = "err"]]
    /\ UNCHANGED <<storeVars, requirePayment, registryVars, configVars, buildVars,
                   compilerVars, now, req, nullGen, holders>>

\* insert_payment: conn.hset_multiple(payment:<n>, ...)
InsertPaymentHset(w) ==
    LET n == writer[w].nullifier
    IN /\ writer[w].pc = "hset"
       /\ \/ /\ payment' = [payment EXCEPT ![n] = hset_payment(@)]
             /\ writer' = [writer EXCEPT ![w].pc = "sadd_all"]
             /\ UNCHANGED failures
          \/ /\ Fail
             /\ writer' = [writer EXCEPT ![w] = StorageReturn(w, "err")]
             /\ UNCHANGED payment
       /\ UNCHANGED <<nullifierKey, unused, reservedKey, reservedSet, chainHeight,
                      requirePayment, registryVars, configVars, buildVars,
                      compilerVars, now, req, nullGen, holders>>

\* insert_payment: conn.sadd("payments:all", n); no modelled operation reads
\* payments:all
InsertPaymentSaddAll(w) ==
    /\ writer[w].pc = "sadd_all"
    /\ \/ /\ writer' = [writer EXCEPT ![w].pc = "sadd_unused"]
          /\ UNCHANGED failures
       \/ /\ Fail
          /\ writer' = [writer EXCEPT ![w] = StorageReturn(w, "err")]
    /\ UNCHANGED <<storeVars, requirePayment, registryVars, configVars, buildVars,
                   compilerVars, now, req, nullGen, holders>>

\* insert_payment: conn.sadd("payments:unused", n)
InsertPaymentSaddUnused(w) ==
    LET n == writer[w].nullifier
    IN /\ writer[w].pc = "sadd_unused"
       /\ \/ /\ unused' = unused \cup {n}
             /\ writer' = [writer EXCEPT ![w].pc = "zadd"]
             /\ UNCHANGED failures
          \/ /\ Fail
             /\ writer' = [writer EXCEPT ![w] = StorageReturn(w, "err")]
             /\ UNCHANGED unused
       /\ UNCHANGED <<nullifierKey, payment, reservedKey, reservedSet, chainHeight,
                      requirePayment, registryVars, configVars, buildVars,
                      compilerVars, now, req, nullGen, holders>>

\* insert_payment: conn.zadd("payments:by_height", n, block_height), Ok(true);
\* no modelled operation reads payments:by_height
InsertPaymentZadd(w) ==
    /\ writer[w].pc = "zadd"
    /\ \/ /\ writer' = [writer EXCEPT ![w] = StorageReturn(w, "true")]
          /\ UNCHANGED failures
       \/ /\ Fail
          /\ writer' = [writer EXCEPT ![w] = StorageReturn(w, "err")]
    /\ UNCHANGED <<storeVars, requirePayment, registryVars, configVars, buildVars,
                   compilerVars, now, req, nullGen, holders>>

\* mark_used: conn.hget(payment:<n>, "used"); Ok(false) when the record is
\* absent or already used
MarkUsedHget(w, n) ==
    /\ writer[w].pc = "idle"
    /\ writer[w].ncalls < MaxWrites
    /\ LET wr == [writer[w] EXCEPT !.op = "mark_used", !.nullifier = n,
                                  !.ret = "", !.ncalls = @ + 1]
       IN \/ /\ writer' = [writer EXCEPT ![w] =
                    IF ~payment[n].exists \/ payment[n].used
                    THEN [wr EXCEPT !.ret = "false"]
                    ELSE [wr EXCEPT !.pc = "hset_used"]]
             /\ UNCHANGED failures
          \/ /\ Fail
             /\ writer' = [writer EXCEPT ![w] = [wr EXCEPT !.ret = "err"]]
    /\ UNCHANGED <<storeVars, requirePayment, registryVars, configVars, buildVars,
                   compilerVars, now, req, nullGen, holders>>

\* mark_used: conn.hset_multiple(payment:<n>, [("used","true"),("used_at",now)])
MarkUsedHset(w) ==
    LET n == writer[w].nullifier
    IN /\ writer[w].pc = "hset_used"
       /\ \/ /\ payment' = [payment EXCEPT ![n] = MarkUsed(@, now)]
             /\ writer' = [writer EXCEPT ![w].pc = "srem_unused"]
             /\ UNCHANGED failures
          \/ /\ Fail
             /\ writer' = [writer EXCEPT ![w] = StorageReturn(w, "err")]
             /\ UNCHANGED payment
       /\ UNCHANGED <<nullifierKey, unused, reservedKey, reservedSet, chainHeight,
                      requirePayment, registryVars, configVars, buildVars,
                      compilerVars, now, req, nullGen, holders>>

\* mark_used: conn.srem("payments:unused", n), Ok(true)
MarkUsedSrem(w) ==
    LET n == writer[w].nullifier
    IN /\ writer[w].pc = "srem_unused"
       /\ \/ /\ unused' = unused \ {n}
             /\ writer' = [writer EXCEPT ![w] = StorageReturn(w, "true")]
             /\ UNCHANGED failures
          \/ /\ Fail
             /\ writer' = [writer EXCEPT ![w] = StorageReturn(w, "err")]
             /\ UNCHANGED unused
       /\ UNCHANGED <<nullifierKey, payment, reservedKey, reservedSet, chainHeight,
                      requirePayment, registryVars, configVars, buildVars,
                      compilerVars, now, req, nullGen, holders>>

WriterStep(w) ==
    \/ \E n \in Nullifiers : InsertPaymentExists(w, n)
    \/ InsertPaymentHset(w)
    \/ InsertPaymentSaddAll(w)
    \/ InsertPaymentSaddUnused(w)
    \/ InsertPaymentZadd(w)
    \/ \E n \in Nullifiers : MarkUsedHget(w, n)
    \/ MarkUsedHset(w)
    \/ MarkUsedSrem(w)

\* the verification service with payment required, no payment on record yet,
\* and the two writers of the backend
InitBackend ==
    /\ nullifierKey = [n \in Nullifiers |-> "none"]
    /\ payment = [n \in Nullifiers |-> NoPayment]
    /\ unused = {}
    /\ reservedKey = [n \in Nullifiers |-> FALSE]
    /\ reservedSet = {}
    /\ chainHeight = 101
    /\ requirePayment = TRUE
    /\ now = 1
    /\ req = [r \in Reqs |-> IdleReq]
    /\ nullGen = [n \in Nullifiers |-> 0]
    /\ holders = [n \in Nullifiers |-> {}]
    /\ failures = 0
    /\ OtherInit

NextBackend ==
    \/ \E w \in Writers : WriterStep(w)
    \/ Step(1)
    \/ \E n \in Nullifiers : ExpireReservation(n)

SpecBackend == InitBackend /\ [][NextBackend]_vars


\* ------------------------------------------------------------------- C34
\* writer w returns from insert_payment in this step, and payment:<n>
\* existed when the call began
InsertReturnsForExisting(w, n) ==
    /\ writer[w].pc = "idle"
    /\ writer'[w].op = "insert_payment"
    /\ writer'[w].nullifier = n
    /\ writer'[w].pc = "idle"
    /\ writer'[w].ncalls # writer[w].ncalls
    /\ writer'[w].ret # "err"
    /\ payment[n].exists

\* C34 as stated: under any interleaving of insert_payment (by concurrent
\* writers), mark_used, confirm_payment and release_reservation, a used flag
\* that is true never becomes false again, and insert_payment for a nullifier
\* that already has a record returns false and leaves the record unchanged.
C34_UsedNeverReset ==
    [][/\ \A n \in Nullifiers :
            (payment[n].exists /\ payment[n].used) => payment'[n].used
       /\ \A w \in Writers : \A n \in Nullifiers :
            InsertReturnsForExisting(w, n)
                => (writer'[w].ret = "false" /\ payment'[n] = payment[n])]_vars


\* ------------------------------------------------------------------- C31
\* C31 as stated: for a document the parser accepted, every
\* array_intersection_check rule, also one that leaves must_be_empty out,
\* makes validate_all return false on an input whose array field shares an
\* element with the prohibited parameter list.
C31_IntersectionReturnsFalse ==
    compiled.stage = "ran" =>
        \A k \in 1..Len(dsl.validation_rules) :
            LET rule == dsl.validation_rules[k] IN
            ( /\ rule.type = "array_intersection_check"
              /\ rule.must_be_empty \in {"absent", "true", "false"}
              /\ guestInput.items \cap PublicParams[rule.prohibited_param] # {} )
            => ~compiled.ran.result


\* ------------------------------------------------------------------- C36
\* every id in build:queue has its record, with status queued
QueuedIdsHaveRecords ==
    \A k \in 1..Len(buildQueue) :
        /\ jobStore[buildQueue[k]] # NoJob
        /\ jobStore[buildQueue[k]].status = "queued"

\* worker w gets the answer of the GET that follows its BLPOP in this step
PopJobGetAnswers(w) ==
    /\ worker[w].pc = "get_job"
    /\ worker'[w] # worker[w]
    /\ buildFailures' = buildFailures

\* C36: whenever a job id is in build:queue, build:job:<id> exists with
\* status queued, under any interleaving of queue_job calls and pops; so the
\* GET of a worker that popped an id never answers None: the worker goes on
\* with the queued job rather than back to the head of its loop.
C36_QueuedIdHasQueuedRecord ==
    /\ []QueuedIdsHaveRecords
    /\ [][\A w \in Workers : PopJobGetAnswers(w) =>
            /\ worker'[w].pc = "mark_building"
            /\ worker'[w].job = jobStore[worker[w].job_id]
            /\ worker'[w].job.status = "queued"]_vars

\* a worker has popped an id and found its job while the handler is between
\* the SET and the RPUSH of the next job
C36_Witness ==
    \E w \in Workers :
        /\ worker[w].pc = "mark_building"
        /\ worker[w].job.status = "queued"
        /\ queueing.pc = "rpush"
        /\ jobStore[queueing.job_id] # NoJob


\* ------------------------------------------------------------------- C38
\* job j has been pushed onto build:queue
Queued(j) == \E k \in 1..Len(pushed) : pushed[k] = j

\* job j has been popped and its persisted status is final
PoppedAndFinal(j) ==
    /\ \E k \in 1..Len(popped) : popped[k].job_id = j
    /\ jobStore[j] # NoJob
    /\ jobStore[j].status \in {"completed", "failed"}

\* C38: while the workers keep running and no command of the build store and
\* no HTTP request fails in transport, every job that was queued is
\* eventually popped and its persisted status eventually is completed or
\* failed, whether process_job fails before the registry call, the registry
\* turns the registration down, or all of it succeeds.
C38_QueuedJobReachesFinalStatus ==
    ([](buildFailures = 0)) => \A j \in JobIds : Queued(j) ~> PoppedAndFinal(j)

\* with no failed store command, one job was failed by the registry turning
\* the registration down and the other one by process_job itself
C38_Witness ==
    /\ buildFailures = 0
    /\ regFailures > 0
    /\ \A j \in JobIds : PoppedAndFinal(j) /\ jobStore[j].status = "failed"
    /\ \E w \in Workers : regLast.op = "register" /\ worker[w].pc = "pop_job"

====
